---- MODULE Spec2Model ----
(***************************************************************************)
(* commit-ai: the response parser, the provider adapters and the message   *)
(* generator.  Strings are sequences of one-character strings, so that the *)
(* string operations of the source (strip, split, replace, regular         *)
(* expression search) are computed character by character.                 *)
(***************************************************************************)
EXTENDS Integers, Sequences, FiniteSets, TLC

VARIABLES
    pc,           \* position in MessageGenerator.generate, or in the function under call
    config,       \* the application configuration (self.config)
    diff,         \* GitAnalyzer.get_staged_diff()
    files,        \* GitAnalyzer.get_staged_files()
    change_type,  \* ContextAnalyzer.detect_change_type(diff, files)
    scope,        \* ContextAnalyzer.analyze_scope(files)
    prompt,       \* the prompt PromptBuilder composed
    response,     \* the raw text the backend returned
    result,       \* the message dictionary being built
    error,        \* str(e) of the exception in flight
    calls,        \* the collaborators invoked so far, in order
    arg,          \* arguments of the function under call
    ret,          \* its return value
    DEFAULT_CONFIG, \* Config.DEFAULT_CONFIG, the class attribute of the process
    conf_file,    \* the file commit-ai.conf
    stdout        \* the lines printed to standard output

vars == <<pc, config, diff, files, change_type, scope, prompt, response, result, error, calls, arg, ret,
          DEFAULT_CONFIG, conf_file, stdout>>

(***************************************************************************)
(* Bounds of the model.                                                    *)
(***************************************************************************)
MaxPieces == 3        \* pieces concatenated into a raw response (parser runs)
MaxTitlePieces == 3   \* pieces concatenated into a title (format runs)
MaxKeywordPieces == 2 \* keyword pieces concatenated into a title (format runs)
MaxTitleChars == 11   \* characters of a title (length runs)
MaxMaxLength == 10    \* largest max_length (length runs)
MaxBackendPieces == 2 \* pieces concatenated into a backend response (generate runs)
MaxDiffPieces == 2    \* pieces concatenated into a diff (change type runs)
MaxScopeFiles == 2    \* files of a file list (scope runs)
MaxBodyPieces == 3    \* pieces concatenated into a diff (body runs)
MaxPromptPieces == 3  \* pieces concatenated into a diff (prompt runs)
MaxDiffLines == 2     \* largest analysis.max_diff_lines (prompt runs)
MaxConfigSteps == 3   \* calls and file writes in a run (configuration runs)

(***************************************************************************)
(* String operations.                                                      *)
(***************************************************************************)
\* str.isspace() of one character: what strip(), split() and \s treat as blank.
Whitespace == {" ", "\n", "\t", "\r"}

Min(S) == CHOOSE i \in S : \A j \in S : i <= j

Max(S) == CHOOSE i \in S : \A j \in S : i >= j

\* s[i:] of Python with i counted from 1: the suffix starting at position i.
From(s, i) == SubSeq(s, i, Len(s))

RECURSIVE LStrip(_)
LStrip(s) == IF s # <<>> /\ Head(s) \in Whitespace THEN LStrip(Tail(s)) ELSE s

RECURSIVE RStrip(_)
RStrip(s) ==
    IF s # <<>> /\ s[Len(s)] \in Whitespace THEN RStrip(SubSeq(s, 1, Len(s) - 1)) ELSE s

\* str.strip()
Strip(s) == RStrip(LStrip(s))

\* p occurs in s at position i.
OccursAt(s, p, i) ==
    /\ i >= 1
    /\ i + Len(p) - 1 <= Len(s)
    /\ \A k \in 1..Len(p) : s[i + k - 1] = p[k]

\* str.startswith
StartsWith(s, p) == OccursAt(s, p, 1)

\* str.endswith
EndsWith(s, p) == OccursAt(s, p, Len(s) - Len(p) + 1)

\* str.find(p, from) + 1: the first position >= from where p occurs, 0 when none.
Find(s, p, from) ==
    LET hits == {i \in from..(Len(s) - Len(p) + 1) : OccursAt(s, p, i)}
    IN  IF hits = {} THEN 0 ELSE Min(hits)

\* str.rfind(p) + 1: the last position where p occurs, 0 when none.
RFind(s, p) ==
    LET hits == {i \in 1..(Len(s) - Len(p) + 1) : OccursAt(s, p, i)}
    IN  IF hits = {} THEN 0 ELSE Max(hits)

\* p in s
Contains(s, p) == Find(s, p, 1) # 0

\* str.replace(old, new): the occurrences of old, left to right, not overlapping.
RECURSIVE Replace(_, _, _)
Replace(s, old, new) ==
    LET i == Find(s, old, 1)
    IN  IF i = 0 THEN s
        ELSE SubSeq(s, 1, i - 1) \o new \o Replace(From(s, i + Len(old)), old, new)

\* str.split(sep)
RECURSIVE Split(_, _)
Split(s, sep) ==
    LET i == Find(s, sep, 1)
    IN  IF i = 0 THEN <<s>>
        ELSE <<SubSeq(s, 1, i - 1)>> \o Split(From(s, i + Len(sep)), sep)

\* str.split() with no separator: the maximal runs of non-blank characters.
RECURSIVE Words(_)
Words(s) ==
    LET t == LStrip(s)
        blanks == {i \in 1..Len(t) : t[i] \in Whitespace}
        k == IF blanks = {} THEN Len(t) + 1 ELSE Min(blanks)
    IN  IF t = <<>> THEN <<>>
        ELSE <<SubSeq(t, 1, k - 1)>> \o Words(From(t, k))

\* sep.join(parts)
RECURSIVE Join(_, _)
Join(parts, sep) ==
    IF parts = <<>> THEN <<>>
    ELSE IF Len(parts) = 1 THEN parts[1]
    ELSE parts[1] \o sep \o Join(Tail(parts), sep)

\* [x for x in xs if x] : the non-empty members, in order.
RECURSIVE NonEmpty(_)
NonEmpty(xs) ==
    IF xs = <<>> THEN <<>>
    ELSE IF Head(xs) = <<>> THEN NonEmpty(Tail(xs))
    ELSE <<Head(xs)>> \o NonEmpty(Tail(xs))

LowerMap ==
    [A |-> "a", B |-> "b", C |-> "c", D |-> "d", E |-> "e", F |-> "f", G |-> "g",
     H |-> "h", I |-> "i", J |-> "j", K |-> "k", L |-> "l", M |-> "m", N |-> "n",
     O |-> "o", P |-> "p", Q |-> "q", R |-> "r", S |-> "s", T |-> "t", U |-> "u",
     V |-> "v", W |-> "w", X |-> "x", Y |-> "y", Z |-> "z"]

\* str.lower()
Lower(s) == [i \in 1..Len(s) |-> IF s[i] \in DOMAIN LowerMap THEN LowerMap[s[i]] ELSE s[i]]

(***************************************************************************)
(* response_parser.py                                                      *)
(***************************************************************************)
ReasoningOpen == <<"<", "r", "e", "a", "s", "o", "n", "i", "n", "g", ">">>
ReasoningClose == <<"<", "/", "r", "e", "a", "s", "o", "n", "i", "n", "g", ">">>
TitleOpen == <<"<", "c", "o", "m", "m", "i", "t", "_", "t", "i", "t", "l", "e", ">">>
TitleClose == <<"<", "/", "c", "o", "m", "m", "i", "t", "_", "t", "i", "t", "l", "e", ">">>
BodyOpen == <<"<", "c", "o", "m", "m", "i", "t", "_", "b", "o", "d", "y", ">">>
BodyClose == <<"<", "/", "c", "o", "m", "m", "i", "t", "_", "b", "o", "d", "y", ">">>

\* The literal title _parse_plain_response returns when no line is left.
PlainDefaultTitle == <<"c", "h", "o", "r", "e", ":", " ", "u", "p", "d", "a", "t", "e", " ", "f", "i", "l", "e", "s">>

\* re.search with a greedy group, open(.*)close: the last close marker.
TagSearchGreedy(s, open, close) ==
    LET i == Find(s, open, 1)
        j == IF i = 0 THEN 0 ELSE RFind(From(s, i + Len(open)), close)
    IN  IF j = 0 THEN [found |-> FALSE, start |-> 0, end |-> 0, group |-> <<>>]
        ELSE [found |-> TRUE, start |-> i, end |-> i + Len(open) + j + Len(close) - 2,
              group |-> SubSeq(s, i + Len(open), i + Len(open) + j - 2)]

\* re.search(open(.*?)close, s, re.DOTALL): the first open marker and the first
\* close marker after it; found = FALSE when there is no match.
TagSearch(s, open, close) ==
    LET i == Find(s, open, 1)
        j == IF i = 0 THEN 0 ELSE Find(s, close, i + Len(open))
    IN  IF j = 0 THEN [found |-> FALSE, start |-> 0, end |-> 0, group |-> <<>>]
        ELSE [found |-> TRUE, start |-> i, end |-> j + Len(close) - 1,
              group |-> SubSeq(s, i + Len(open), j - 1)]

\* match.group(1).strip() if match else ""
TagContent(s, open, close) == Strip(TagSearch(s, open, close).group)

\* re.sub(open.*?close, '', s, flags=re.DOTALL)
RECURSIVE RemoveTagged(_, _, _)
RemoveTagged(s, open, close) ==
    LET m == TagSearch(s, open, close)
    IN  IF ~m.found THEN s
        ELSE SubSeq(s, 1, m.start - 1) \o RemoveTagged(From(s, m.end + 1), open, close)

\* The alternatives of the second re.sub of _parse_plain_response.
PlainMarkers == {TitleOpen, TitleClose, BodyOpen, BodyClose}

\* re.sub('<commit_title>|</commit_title>|<commit_body>|</commit_body>', '', s)
RECURSIVE RemoveMarkers(_)
RemoveMarkers(s) ==
    LET hits == {Find(s, m, 1) : m \in PlainMarkers} \ {0}
    IN  IF hits = {} THEN s
        ELSE LET i == Min(hits)
                 m == CHOOSE x \in PlainMarkers : OccursAt(s, x, i)
             IN  SubSeq(s, 1, i - 1) \o RemoveMarkers(From(s, i + Len(m)))

\* [line.strip() for line in s.strip().split('\n') if line.strip()]
StrippedLines(s) ==
    LET ls == Split(Strip(s), <<"\n">>)
    IN  NonEmpty([i \in 1..Len(ls) |-> Strip(ls[i])])

\* _parse_plain_response returning an empty title when no line is left.
ParsePlainResponseNoDefault(resp) ==
    LET r1 == RemoveTagged(resp, ReasoningOpen, ReasoningClose)
        r2 == RemoveMarkers(r1)
        lines == StrippedLines(r2)
    IN  IF lines = <<>> THEN <<<<>>, <<>>>>
        ELSE <<lines[1], IF Len(lines) > 1 THEN Join(Tail(lines), <<"\n">>) ELSE <<>>>>

\* ResponseParser._parse_plain_response: <<title, body>>
ParsePlainResponse(resp) ==
    LET r1 == RemoveTagged(resp, ReasoningOpen, ReasoningClose)
        r2 == RemoveMarkers(r1)
        lines == StrippedLines(r2)
    IN  IF lines = <<>> THEN <<PlainDefaultTitle, <<>>>>
        ELSE <<lines[1], IF Len(lines) > 1 THEN Join(Tail(lines), <<"\n">>) ELSE <<>>>>

\* ResponseParser._clean_text
CleanText(text) ==
    LET joined == Join(Words(text), <<" ">>)
        broken == Replace(joined, <<".", " ">>, <<".", "\n">>)
        labels == Replace(broken, <<":", "\n">>, <<":", " ">>)
    IN  Strip(labels)

\* f"{title}\n\n{body}" if body else title
FullMessage(title, body) == IF body # <<>> THEN title \o <<"\n", "\n">> \o body ELSE title

\* ResponseParser.parse_structured_response
ParseStructuredResponse(resp) ==
    LET reasoning == TagContent(resp, ReasoningOpen, ReasoningClose)
        title0 == TagContent(resp, TitleOpen, TitleClose)
        body0 == TagContent(resp, BodyOpen, BodyClose)
        plain == ParsePlainResponse(resp)
        title1 == IF title0 = <<>> THEN plain[1] ELSE title0
        body1 == IF title0 = <<>> THEN plain[2] ELSE body0
        title == CleanText(title1)
        body == CleanText(body1)
    IN  [reasoning |-> reasoning, title |-> title, body |-> body,
         full_message |-> FullMessage(title, body)]

\* ': .+' matched at the start of r: a colon, a space, one character that is
\* not a line break ('.' without re.DOTALL).
MatchesDescription(r) ==
    /\ Len(r) >= 3
    /\ r[1] = ":"
    /\ r[2] = " "
    /\ r[3] # "\n"

\* '(\(.+?\))?: .+' matched at the start of r.  The lazy '.+?' grows until the
\* rest of the pattern matches, so the scope ends at any ')' that works.
MatchesScopeDescription(r) ==
    \/ MatchesDescription(r)
    \/ /\ r # <<>>
       /\ r[1] = "("
       /\ \E k \in 3..Len(r) :
            /\ r[k] = ")"
            /\ \A j \in 2..(k - 1) : r[j] # "\n"
            /\ MatchesDescription(From(r, k + 1))

\* validate_conventional_commit compiled with re.IGNORECASE.
ValidateIgnoringCase(title, valid_types) ==
    IF valid_types = <<>> THEN MatchesScopeDescription(title)
    ELSE \E i \in 1..Len(valid_types) :
            /\ StartsWith(Lower(title), Lower(valid_types[i]))
            /\ MatchesScopeDescription(From(title, Len(valid_types[i]) + 1))

\* ResponseParser.validate_conventional_commit: re.match of
\* '^(' + '|'.join(types) + r')(\(.+?\))?: .+'
ValidateConventionalCommit(title, valid_types) ==
    IF valid_types = <<>> THEN MatchesScopeDescription(title)
    ELSE \E i \in 1..Len(valid_types) :
            /\ StartsWith(title, valid_types[i])
            /\ MatchesScopeDescription(From(title, Len(valid_types[i]) + 1))

\* re.sub(r'^[:\(\)]?\s*', '', rest): one leading ':', '(' or ')' if present,
\* then the blanks after it.
StripLeadingPunct(rest) ==
    LStrip(IF rest # <<>> /\ rest[1] \in {":", "(", ")"} THEN Tail(rest) ELSE rest)

\* The length of the run of blanks of u that starts at position i.
RECURSIVE BlankRun(_, _)
BlankRun(u, i) == IF i <= Len(u) /\ u[i] \in Whitespace THEN 1 + BlankRun(u, i + 1) ELSE 0

\* '.+' from position d of u: up to the line break.
LineFrom(u, d) ==
    LET nl == Find(u, <<"\n">>, d)
    IN  IF nl = 0 THEN From(u, d) ELSE SubSeq(u, d, nl - 1)

\* re.match(r'\(([^)]+)\)\s*:?\s*(.+)', rest): the scope runs to the first ')';
\* the blanks, the optional colon and the blanks after it are taken greedily and
\* given back, last taken first, until '.+' finds a character that is no line break.
ScopeMatch(rest) ==
    LET k == Find(rest, <<")">>, 1)
        u == From(rest, k + 1)
        cands == {t \in (0..Len(u)) \X {0, 1} \X (0..Len(u)) :
                    /\ t[1] <= BlankRun(u, 1)
                    /\ t[2] = 1 => (t[1] + 1 <= Len(u) /\ u[t[1] + 1] = ":")
                    /\ t[3] <= BlankRun(u, t[1] + t[2] + 1)
                    /\ t[1] + t[2] + t[3] + 1 <= Len(u)
                    /\ u[t[1] + t[2] + t[3] + 1] # "\n"}
        key(t) == (t[1] * 2 + t[2]) * (Len(u) + 1) + t[3]
        best == CHOOSE t \in cands : \A t2 \in cands : key(t) >= key(t2)
    IN  IF rest = <<>> \/ rest[1] # "(" \/ k < 3 \/ cands = {}
        THEN [found |-> FALSE, scope |-> <<>>, description |-> <<>>]
        ELSE [found |-> TRUE, scope |-> SubSeq(rest, 2, k - 1),
              description |-> LineFrom(u, best[1] + best[2] + best[3] + 1)]

\* The body of the loop of fix_commit_format for the type that prefixes the title.
FixWithType(title, commit_type) ==
    LET rest == StripLeadingPunct(Strip(From(title, Len(commit_type) + 1)))
        m == ScopeMatch(rest)
    IN  IF m.found THEN commit_type \o <<"(">> \o m.scope \o <<")", ":", " ">> \o m.description
        ELSE IF ~StartsWith(rest, <<":">>) THEN commit_type \o <<":", " ">> \o rest
        ELSE commit_type \o rest

\* any(word in title_lower for word in words)
AnyWordIn(words, text) == \E w \in words : Contains(text, w)

\* The if/elif chain with its first two rows exchanged.
InferTypeFixFirst(title_lower) ==
    IF AnyWordIn({<<"f", "i", "x">>, <<"b", "u", "g">>, <<"i", "s", "s", "u", "e">>, <<"r", "e", "s", "o", "l", "v", "e">>}, title_lower) THEN <<"f", "i", "x">>
    ELSE IF AnyWordIn({<<"a", "d", "d">>, <<"n", "e", "w">>, <<"i", "m", "p", "l", "e", "m", "e", "n", "t">>, <<"c", "r", "e", "a", "t", "e">>}, title_lower) THEN <<"f", "e", "a", "t">>
    ELSE IF AnyWordIn({<<"u", "p", "d", "a", "t", "e">>, <<"m", "o", "d", "i", "f", "y">>, <<"c", "h", "a", "n", "g", "e">>}, title_lower) THEN <<"c", "h", "o", "r", "e">>
    ELSE IF AnyWordIn({<<"r", "e", "f", "a", "c", "t", "o", "r">>, <<"r", "e", "s", "t", "r", "u", "c", "t", "u", "r", "e">>, <<"r", "e", "o", "r", "g", "a", "n", "i", "z", "e">>}, title_lower)
         THEN <<"r", "e", "f", "a", "c", "t", "o", "r">>
    ELSE IF AnyWordIn({<<"t", "e", "s", "t">>, <<"s", "p", "e", "c">>}, title_lower) THEN <<"t", "e", "s", "t">>
    ELSE IF AnyWordIn({<<"d", "o", "c">>, <<"r", "e", "a", "d", "m", "e">>}, title_lower) THEN <<"d", "o", "c", "s">>
    ELSE <<"c", "h", "o", "r", "e">>

\* The if/elif chain of fix_commit_format: the type of the first row with a
\* keyword in the lowercased title.
InferType(title_lower) ==
    IF AnyWordIn({<<"a", "d", "d">>, <<"n", "e", "w">>, <<"i", "m", "p", "l", "e", "m", "e", "n", "t">>, <<"c", "r", "e", "a", "t", "e">>}, title_lower) THEN <<"f", "e", "a", "t">>
    ELSE IF AnyWordIn({<<"f", "i", "x">>, <<"b", "u", "g">>, <<"i", "s", "s", "u", "e">>, <<"r", "e", "s", "o", "l", "v", "e">>}, title_lower) THEN <<"f", "i", "x">>
    ELSE IF AnyWordIn({<<"u", "p", "d", "a", "t", "e">>, <<"m", "o", "d", "i", "f", "y">>, <<"c", "h", "a", "n", "g", "e">>}, title_lower) THEN <<"c", "h", "o", "r", "e">>
    ELSE IF AnyWordIn({<<"r", "e", "f", "a", "c", "t", "o", "r">>, <<"r", "e", "s", "t", "r", "u", "c", "t", "u", "r", "e">>, <<"r", "e", "o", "r", "g", "a", "n", "i", "z", "e">>}, title_lower)
         THEN <<"r", "e", "f", "a", "c", "t", "o", "r">>
    ELSE IF AnyWordIn({<<"t", "e", "s", "t">>, <<"s", "p", "e", "c">>}, title_lower) THEN <<"t", "e", "s", "t">>
    ELSE IF AnyWordIn({<<"d", "o", "c">>, <<"r", "e", "a", "d", "m", "e">>}, title_lower) THEN <<"d", "o", "c", "s">>
    ELSE <<"c", "h", "o", "r", "e">>

\* fix_commit_format without its early return for a title that already matches.
FixCommitFormatAlways(title0, valid_types) ==
    LET title == Strip(title0)
        prefixing == {i \in 1..Len(valid_types) : StartsWith(Lower(title), valid_types[i])}
    IN  IF prefixing # {} THEN FixWithType(title, valid_types[Min(prefixing)])
        ELSE InferType(Lower(title)) \o <<":", " ">> \o title

\* ResponseParser.fix_commit_format
FixCommitFormat(title0, valid_types) ==
    LET title == Strip(title0)
        prefixing == {i \in 1..Len(valid_types) : StartsWith(Lower(title), valid_types[i])}
    IN  IF ValidateConventionalCommit(title, valid_types) THEN title
        ELSE IF prefixing # {} THEN FixWithType(title, valid_types[Min(prefixing)])
        ELSE InferType(Lower(title)) \o <<":", " ">> \o title

\* last_space > max_length * 0.7, last_space counted from 0.  The product is
\* a double; for max_length < 90 the comparison agrees with the exact one.
KeepsEnough(last_space, max_length) == 10 * last_space > 7 * max_length

\* validate_title_length cutting one character too late (title[:max_length + 1]).
ValidateTitleLengthOffByOne(title, max_length) ==
    IF Len(title) <= max_length THEN <<TRUE, title>>
    ELSE LET truncated == SubSeq(title, 1, max_length + 1)
             last_space == RFind(truncated, <<" ">>) - 1
         IN  <<FALSE, Strip(IF KeepsEnough(last_space, max_length)
                            THEN SubSeq(truncated, 1, last_space)
                            ELSE truncated)>>

\* ResponseParser.validate_title_length: <<is_valid, title>>
ValidateTitleLength(title, max_length) ==
    IF Len(title) <= max_length THEN <<TRUE, title>>
    ELSE LET truncated == SubSeq(title, 1, max_length)
             last_space == RFind(truncated, <<" ">>) - 1
         IN  <<FALSE, Strip(IF KeepsEnough(last_space, max_length)
                            THEN SubSeq(truncated, 1, last_space)
                            ELSE truncated)>>

(***************************************************************************)
(* config.py: JSON documents and the default configuration.  A dictionary  *)
(* is [d |-> f], f a function from its keys to documents; any other value  *)
(* is [v |-> x].  Dictionaries are objects: the copy() of Config.load is   *)
(* shallow, so the dictionary it returns shares its nested sections with   *)
(* DEFAULT_CONFIG until a key is bound to another value.                   *)
(***************************************************************************)
\* commit_format.types of DEFAULT_CONFIG
DefaultTypes ==
    <<<<"f", "e", "a", "t">>, <<"f", "i", "x">>, <<"d", "o", "c", "s">>, <<"s", "t", "y", "l", "e">>, <<"r", "e", "f", "a", "c", "t", "o", "r">>, <<"t", "e", "s", "t">>, <<"c", "h", "o", "r", "e">>, <<"p", "e", "r", "f">>>>

\* The built-in system message (also the one DEFAULT_CONFIG carries), cut short.
DefaultSystemMessage == <<"Y", "o", "u", " ", "a", "r", "e", " ", "a", "n", " ", "e", "x", "p", "e", "r", "t", " ", "s", "o", "f", "t", "w", "a", "r", "e", " ", "e", "n", "g", "i", "n", "e", "e", "r">>

IsDict(x) == "d" \in DOMAIN x

Dict(f) == [d |-> f]

Val(x) == [v |-> x]

\* Config.DEFAULT_CONFIG as the source gives it (config.py:12-56).
DocumentedDefaults ==
    [enabled |-> Val(TRUE),
     ai_provider |-> Val("ollama"),
     providers |-> Dict(
        [ollama |-> Dict([enabled |-> Val(TRUE), base_url |-> Val(<<"h", "t", "t", "p", ":", "/", "/", "l", "o", "c", "a", "l", "h", "o", "s", "t", ":", "1", "1", "4", "3", "4">>),
                          model |-> Val(<<"l", "l", "a", "m", "a", "2", ":", "7", "b", "-", "c", "h", "a", "t">>)]),
         openai |-> Dict([enabled |-> Val(FALSE), api_key |-> Val(<<>>), model |-> Val(<<"g", "p", "t", "-", "4">>),
                          base_url |-> Val(<<"h", "t", "t", "p", "s", ":", "/", "/", "a", "p", "i", ".", "o", "p", "e", "n", "a", "i", ".", "c", "o", "m", "/", "v", "1">>)]),
         anthropic |-> Dict([enabled |-> Val(FALSE), api_key |-> Val(<<>>),
                             model |-> Val(<<"c", "l", "a", "u", "d", "e", "-", "3", "-", "5", "-", "s", "o", "n", "n", "e", "t", "-", "2", "0", "2", "4", "1", "0", "2", "2">>)]),
         gemini |-> Dict([enabled |-> Val(FALSE), api_key |-> Val(<<>>),
                          model |-> Val(<<"g", "e", "m", "i", "n", "i", "-", "p", "r", "o">>)])]),
     commit_format |-> Dict(
        [use_conventional_commits |-> Val(TRUE), types |-> Val(DefaultTypes),
         max_title_length |-> Val([int |-> 72]), include_body |-> Val(TRUE)]),
     analysis |-> Dict(
        [max_diff_lines |-> Val(500), include_file_list |-> Val(TRUE),
         analyze_context |-> Val(TRUE)]),
     prompt_engineering |-> Dict(
        [system_message |-> Val(DefaultSystemMessage), reasoning_template |-> Val(<<>>),
         output_format |-> Val(<<>>), examples |-> Val(<<>>)]),
     fallback_message |-> Val(<<"c", "h", "o", "r", "e", ":", " ", "u", "p", "d", "a", "t", "e", " ", "f", "i", "l", "e", "s">>)]

\* The file commit-ai.conf when there is none.
NoFile == [kind |-> "absent"]

\* A process that has not touched the configuration.
ProcessStart ==
    /\ DEFAULT_CONFIG = DocumentedDefaults
    /\ conf_file = NoFile
    /\ stdout = <<>>

(***************************************************************************)
(* Raw responses: up to MaxPieces pieces, concatenated.                    *)
(***************************************************************************)
ResponsePieces ==
    {ReasoningOpen, ReasoningClose, TitleOpen, TitleClose, BodyOpen, BodyClose,
     <<"<", "c", "o", "m", "m", "i", "t", "_">>, <<" ">>, <<"\n">>, <<"f", "e", "a", "t", ":", " ", "x">>, <<"y", ".", " ", "z">>, <<"N", "o", "t", "e", ":">>,
     <<"<", "c", "o", "m", "m", "i", "t", "_", "t", "i", "t", "l", "e", ">", " ", "<", "/", "c", "o", "m", "m", "i", "t", "_", "t", "i", "t", "l", "e", ">">>, <<"<", "c", "o", "m", "m", "i", "t", "_", "t", "i", "t", "l", "e", ">", "f", "e", "a", "t", ":", " ", "x", "<", "/", "c", "o", "m", "m", "i", "t", "_", "t", "i", "t", "l", "e", ">">>,
     <<"<", "c", "o", "m", "m", "i", "t", "_", "b", "o", "d", "y", ">", "y", "<", "/", "c", "o", "m", "m", "i", "t", "_", "b", "o", "d", "y", ">">>}

RECURSIVE Cat(_)
Cat(ps) == IF ps = <<>> THEN <<>> ELSE Head(ps) \o Cat(Tail(ps))

Responses == {Cat(ps) : ps \in UNION {[1..n -> ResponsePieces] : n \in 0..MaxPieces}}

NoResult == [reasoning |-> <<>>, title |-> <<>>, body |-> <<>>, full_message |-> <<>>]

NoConfig == [fallback_message |-> <<>>]

NoPrompt == [system |-> <<>>, user |-> <<>>]

NoCall == [fn |-> "none"]

(***************************************************************************)
(* SpecParse: parse_structured_response applied to a raw response.         *)
(***************************************************************************)
InitParse ==
    /\ pc = "call"
    /\ arg \in {[response |-> r] : r \in Responses}
    /\ ret = NoResult
    /\ config = NoConfig
    /\ diff = <<>>
    /\ files = <<>>
    /\ change_type = ""
    /\ scope = <<>>
    /\ prompt = NoPrompt
    /\ response = <<>>
    /\ result = NoResult
    /\ error = <<>>
    /\ calls = <<>>
    /\ ProcessStart

CallParse ==
    /\ pc = "call"
    /\ ret' = ParseStructuredResponse(arg.response)
    /\ pc' = "return"
    /\ UNCHANGED <<DEFAULT_CONFIG, conf_file, stdout>>
    /\ UNCHANGED <<config, diff, files, change_type, scope, prompt, response, result, error, calls, arg>>

NextParse == CallParse

SpecParse == InitParse /\ [][NextParse]_vars

(***************************************************************************)
(* SpecFormat: validate_conventional_commit and fix_commit_format applied  *)
(* to a title and a list of types.                                         *)
(***************************************************************************)
TitlePieces ==
    {<<"f", "e", "a", "t">>, <<"F", "e", "a", "t">>, <<"f", "i", "x">>, <<"(", "a", "p", "i", ")">>, <<":", " ", "a", "d", "d", " ", "x">>, <<" ", "a", "d", "d", " ", "x">>, <<":", " ">>, <<":">>, <<" ">>,
     <<"(">>, <<")">>, <<"\n">>, <<"x">>}

KeywordPieces ==
    {<<"a", "d", "d", "e", "d">>, <<"b", "u", "g">>, <<"U", "p", "d", "a", "t", "e">>, <<"r", "e", "f", "a", "c", "t", "o", "r">>, <<"s", "p", "e", "c">>, <<"r", "e", "a", "d", "m", "e">>, <<"m", "i", "s", "c">>, <<" ", "s", "t", "u", "f", "f">>}

Titles ==
    {Cat(ps) : ps \in UNION {[1..n -> TitlePieces] : n \in 0..MaxTitlePieces}}
    \cup {Cat(ps) : ps \in UNION {[1..n -> KeywordPieces] : n \in 1..MaxKeywordPieces}}

TypeLists == {DefaultTypes, <<<<"f", "e", "a", "t">>, <<"f", "i", "x">>>>, <<<<"d", "o", "c", "s">>>>}

InitFormat ==
    /\ pc = "call"
    /\ arg \in {[title |-> t, valid_types |-> ts] : t \in Titles, ts \in TypeLists}
    /\ ret = [valid |-> FALSE, fixed |-> <<>>, fixed_valid |-> FALSE, refixed |-> <<>>]
    /\ config = NoConfig
    /\ diff = <<>>
    /\ files = <<>>
    /\ change_type = ""
    /\ scope = <<>>
    /\ prompt = NoPrompt
    /\ response = <<>>
    /\ result = NoResult
    /\ error = <<>>
    /\ calls = <<>>
    /\ ProcessStart

CallValidate ==
    /\ pc = "call"
    /\ ret' = [ret EXCEPT !.valid = ValidateConventionalCommit(arg.title, arg.valid_types)]
    /\ pc' = "validated"
    /\ UNCHANGED <<DEFAULT_CONFIG, conf_file, stdout>>
    /\ UNCHANGED <<config, diff, files, change_type, scope, prompt, response, result, error, calls, arg>>

CallFix ==
    /\ pc = "validated"
    /\ LET fixed == FixCommitFormat(arg.title, arg.valid_types)
       IN  ret' = [ret EXCEPT !.fixed = fixed,
                              !.fixed_valid = ValidateConventionalCommit(fixed, arg.valid_types)]
    /\ pc' = "fixed"
    /\ UNCHANGED <<DEFAULT_CONFIG, conf_file, stdout>>
    /\ UNCHANGED <<config, diff, files, change_type, scope, prompt, response, result, error, calls, arg>>

CallFixAgain ==
    /\ pc = "fixed"
    /\ ret' = [ret EXCEPT !.refixed = FixCommitFormat(ret.fixed, arg.valid_types)]
    /\ pc' = "return"
    /\ UNCHANGED <<DEFAULT_CONFIG, conf_file, stdout>>
    /\ UNCHANGED <<config, diff, files, change_type, scope, prompt, response, result, error, calls, arg>>

NextFormat == CallValidate \/ CallFix \/ CallFixAgain

SpecFormat == InitFormat /\ [][NextFormat]_vars

(***************************************************************************)
(* SpecLength: validate_title_length applied to a title and a max_length.  *)
(***************************************************************************)
LengthTitles == UNION {[1..n -> {"a", " "}] : n \in 0..MaxTitleChars}

InitLength ==
    /\ pc = "call"
    /\ arg \in {[title |-> t, max_length |-> m] : t \in LengthTitles, m \in 1..MaxMaxLength}
    /\ ret = <<TRUE, <<>>>>
    /\ config = NoConfig
    /\ diff = <<>>
    /\ files = <<>>
    /\ change_type = ""
    /\ scope = <<>>
    /\ prompt = NoPrompt
    /\ response = <<>>
    /\ result = NoResult
    /\ error = <<>>
    /\ calls = <<>>
    /\ ProcessStart

CallValidateTitleLength ==
    /\ pc = "call"
    /\ ret' = ValidateTitleLength(arg.title, arg.max_length)
    /\ pc' = "return"
    /\ UNCHANGED <<DEFAULT_CONFIG, conf_file, stdout>>
    /\ UNCHANGED <<config, diff, files, change_type, scope, prompt, response, result, error, calls, arg>>

NextLength == CallValidateTitleLength

SpecLength == InitLength /\ [][NextLength]_vars

(***************************************************************************)
(* context_analyzer.py                                                     *)
(***************************************************************************)
IsDocFile(f) ==
    \/ EndsWith(f, <<".", "m", "d">>)
    \/ EndsWith(f, <<".", "r", "s", "t">>)
    \/ EndsWith(f, <<".", "t", "x", "t">>)
    \/ Contains(Lower(f), <<"d", "o", "c">>)

IsTestFile(f) == Contains(Lower(f), <<"t", "e", "s", "t">>) \/ Contains(Lower(f), <<"s", "p", "e", "c">>)

\* detect_change_type without the test-keyword check of its feature rule.
DetectChangeTypeNoTestCheck(d, fs) ==
    LET diff_lower == Lower(d)
    IN  IF AnyWordIn({<<"f", "i", "x">>, <<"b", "u", "g">>, <<"i", "s", "s", "u", "e">>, <<"e", "r", "r", "o", "r">>, <<"c", "r", "a", "s", "h">>, <<"p", "a", "t", "c", "h">>}, diff_lower)
        THEN "bugfix"
        ELSE IF AnyWordIn({<<"a", "d", "d">>, <<"n", "e", "w">>, <<"i", "m", "p", "l", "e", "m", "e", "n", "t">>, <<"f", "e", "a", "t", "u", "r", "e">>, <<"i", "n", "t", "r", "o", "d", "u", "c", "e">>}, diff_lower)
        THEN "feature"
        ELSE IF \E i \in 1..Len(fs) : IsDocFile(fs[i]) THEN "documentation"
        ELSE IF \E i \in 1..Len(fs) : IsTestFile(fs[i]) THEN "test"
        ELSE IF AnyWordIn({<<"r", "e", "f", "a", "c", "t", "o", "r">>, <<"r", "e", "s", "t", "r", "u", "c", "t", "u", "r", "e">>, <<"r", "e", "o", "r", "g", "a", "n", "i", "z", "e">>, <<"c", "l", "e", "a", "n", "u", "p">>,
                           <<"s", "i", "m", "p", "l", "i", "f", "y">>}, diff_lower)
        THEN "refactor"
        ELSE IF AnyWordIn({<<"p", "e", "r", "f", "o", "r", "m", "a", "n", "c", "e">>, <<"o", "p", "t", "i", "m", "i", "z", "e">>, <<"f", "a", "s", "t", "e", "r">>, <<"e", "f", "f", "i", "c", "i", "e", "n", "t">>}, diff_lower)
        THEN "performance"
        ELSE IF AnyWordIn({<<"f", "o", "r", "m", "a", "t">>, <<"s", "t", "y", "l", "e">>, <<"l", "i", "n", "t">>, <<"p", "r", "e", "t", "t", "i", "e", "r">>}, diff_lower)
        THEN "style"
        ELSE "default"

\* ContextAnalyzer.detect_change_type
DetectChangeType(d, fs) ==
    LET diff_lower == Lower(d)
    IN  IF AnyWordIn({<<"f", "i", "x">>, <<"b", "u", "g">>, <<"i", "s", "s", "u", "e">>, <<"e", "r", "r", "o", "r">>, <<"c", "r", "a", "s", "h">>, <<"p", "a", "t", "c", "h">>}, diff_lower)
        THEN "bugfix"
        ELSE IF /\ AnyWordIn({<<"a", "d", "d">>, <<"n", "e", "w">>, <<"i", "m", "p", "l", "e", "m", "e", "n", "t">>, <<"f", "e", "a", "t", "u", "r", "e">>, <<"i", "n", "t", "r", "o", "d", "u", "c", "e">>},
                             diff_lower)
                /\ ~AnyWordIn({<<"t", "e", "s", "t">>, <<"s", "p", "e", "c">>, <<"j", "e", "s", "t">>, <<"p", "y", "t", "e", "s", "t">>}, diff_lower)
        THEN "feature"
        ELSE IF \E i \in 1..Len(fs) : IsDocFile(fs[i]) THEN "documentation"
        ELSE IF \E i \in 1..Len(fs) : IsTestFile(fs[i]) THEN "test"
        ELSE IF AnyWordIn({<<"r", "e", "f", "a", "c", "t", "o", "r">>, <<"r", "e", "s", "t", "r", "u", "c", "t", "u", "r", "e">>, <<"r", "e", "o", "r", "g", "a", "n", "i", "z", "e">>, <<"c", "l", "e", "a", "n", "u", "p">>,
                           <<"s", "i", "m", "p", "l", "i", "f", "y">>}, diff_lower)
        THEN "refactor"
        ELSE IF AnyWordIn({<<"p", "e", "r", "f", "o", "r", "m", "a", "n", "c", "e">>, <<"o", "p", "t", "i", "m", "i", "z", "e">>, <<"f", "a", "s", "t", "e", "r">>, <<"e", "f", "f", "i", "c", "i", "e", "n", "t">>}, diff_lower)
        THEN "performance"
        ELSE IF AnyWordIn({<<"f", "o", "r", "m", "a", "t">>, <<"s", "t", "y", "l", "e">>, <<"l", "i", "n", "t">>, <<"p", "r", "e", "t", "t", "i", "e", "r">>}, diff_lower)
        THEN "style"
        ELSE "default"

\* The directory names analyze_scope skips.
SkippedDirs == {<<".">>, <<".", ".">>, <<"s", "r", "c">>, <<"l", "i", "b">>, <<"a", "p", "p">>}

\* The inner loop of analyze_scope: the first part of parts[:-1] that is not
\* skipped, as a set of at most one name.
FirstDirectory(f) ==
    LET parts == Split(f, <<"/">>)
        kept == {i \in 1..(Len(parts) - 1) : parts[i] \notin SkippedDirs}
    IN  IF kept = {} THEN {} ELSE {parts[Min(kept)]}

\* common_patterns with its first two entries exchanged.
CommonPatternsApiFirst ==
    << [scope |-> <<"a", "p", "i">>, keywords |-> {<<"a", "p", "i">>, <<"e", "n", "d", "p", "o", "i", "n", "t">>, <<"r", "o", "u", "t", "e">>}],
       [scope |-> <<"a", "u", "t", "h">>, keywords |-> {<<"a", "u", "t", "h">>, <<"l", "o", "g", "i", "n">>, <<"s", "e", "s", "s", "i", "o", "n">>, <<"t", "o", "k", "e", "n">>}],
       [scope |-> <<"u", "i">>, keywords |-> {<<"c", "o", "m", "p", "o", "n", "e", "n", "t">>, <<"v", "i", "e", "w">>, <<"p", "a", "g", "e">>, <<"u", "i">>, <<"f", "r", "o", "n", "t", "e", "n", "d">>}],
       [scope |-> <<"d", "b">>, keywords |-> {<<"d", "a", "t", "a", "b", "a", "s", "e">>, <<"m", "o", "d", "e", "l">>, <<"s", "c", "h", "e", "m", "a">>, <<"m", "i", "g", "r", "a", "t", "i", "o", "n">>}],
       [scope |-> <<"t", "e", "s", "t">>, keywords |-> {<<"t", "e", "s", "t">>, <<"s", "p", "e", "c">>, <<"_", "_", "t", "e", "s", "t", "s", "_", "_">>}],
       [scope |-> <<"d", "o", "c", "s">>, keywords |-> {<<"d", "o", "c">>, <<"r", "e", "a", "d", "m", "e">>, <<"g", "u", "i", "d", "e">>}],
       [scope |-> <<"c", "o", "n", "f", "i", "g">>, keywords |-> {<<"c", "o", "n", "f", "i", "g">>, <<"s", "e", "t", "t", "i", "n", "g", "s">>, <<"e", "n", "v">>}] >>

\* common_patterns of analyze_scope, in the order of the dictionary.
CommonPatterns ==
    << [scope |-> <<"a", "u", "t", "h">>, keywords |-> {<<"a", "u", "t", "h">>, <<"l", "o", "g", "i", "n">>, <<"s", "e", "s", "s", "i", "o", "n">>, <<"t", "o", "k", "e", "n">>}],
       [scope |-> <<"a", "p", "i">>, keywords |-> {<<"a", "p", "i">>, <<"e", "n", "d", "p", "o", "i", "n", "t">>, <<"r", "o", "u", "t", "e">>}],
       [scope |-> <<"u", "i">>, keywords |-> {<<"c", "o", "m", "p", "o", "n", "e", "n", "t">>, <<"v", "i", "e", "w">>, <<"p", "a", "g", "e">>, <<"u", "i">>, <<"f", "r", "o", "n", "t", "e", "n", "d">>}],
       [scope |-> <<"d", "b">>, keywords |-> {<<"d", "a", "t", "a", "b", "a", "s", "e">>, <<"m", "o", "d", "e", "l">>, <<"s", "c", "h", "e", "m", "a">>, <<"m", "i", "g", "r", "a", "t", "i", "o", "n">>}],
       [scope |-> <<"t", "e", "s", "t">>, keywords |-> {<<"t", "e", "s", "t">>, <<"s", "p", "e", "c">>, <<"_", "_", "t", "e", "s", "t", "s", "_", "_">>}],
       [scope |-> <<"d", "o", "c", "s">>, keywords |-> {<<"d", "o", "c">>, <<"r", "e", "a", "d", "m", "e">>, <<"g", "u", "i", "d", "e">>}],
       [scope |-> <<"c", "o", "n", "f", "i", "g">>, keywords |-> {<<"c", "o", "n", "f", "i", "g">>, <<"s", "e", "t", "t", "i", "n", "g", "s">>, <<"e", "n", "v">>}] >>

\* analyze_scope consulting the keyword table before the directories.
AnalyzeScopeKeywordsFirst(fs) ==
    LET directories == UNION {FirstDirectory(fs[i]) : i \in 1..Len(fs)}
        files_str == Lower(Join(fs, <<" ">>))
        rows == {i \in 1..Len(CommonPatterns) :
                    AnyWordIn(CommonPatterns[i].keywords, files_str)}
    IN  IF fs = <<>> THEN <<>>
        ELSE IF rows # {} THEN CommonPatterns[Min(rows)].scope
        ELSE IF Cardinality(directories) = 1
        THEN LET d == CHOOSE x \in directories : TRUE
             IN  Replace(Replace(d, <<"_">>, <<"-">>), <<" ">>, <<"-">>)
        ELSE <<>>

\* ContextAnalyzer.analyze_scope
AnalyzeScope(fs) ==
    LET directories == UNION {FirstDirectory(fs[i]) : i \in 1..Len(fs)}
        files_str == Lower(Join(fs, <<" ">>))
        rows == {i \in 1..Len(CommonPatterns) :
                    AnyWordIn(CommonPatterns[i].keywords, files_str)}
    IN  IF fs = <<>> THEN <<>>
        ELSE IF Cardinality(directories) = 1
        THEN LET d == CHOOSE x \in directories : TRUE
             IN  Replace(Replace(d, <<"_">>, <<"-">>), <<" ">>, <<"-">>)
        ELSE IF rows # {} THEN CommonPatterns[Min(rows)].scope
        ELSE <<>>

(***************************************************************************)
(* config.py: the configuration dictionary.  A key that may be absent is   *)
(* absent from the record's domain; a number that the configuration file   *)
(* may give as a string is [int |-> n] or [str |-> s].                     *)
(***************************************************************************)
\* dict.get(k, dflt)
Get(d, k, dflt) == IF k \in DOMAIN d THEN d[k] ELSE dflt

\* Config.DEFAULT_CONFIG, the keys the generation reads.
DefaultConfig ==
    [ai_provider |-> "ollama",
     providers |->
        [ollama |-> [model |-> <<"l", "l", "a", "m", "a", "2", ":", "7", "b", "-", "c", "h", "a", "t">>],
         openai |-> [api_key |-> <<>>, model |-> <<"g", "p", "t", "-", "4">>],
         anthropic |-> [api_key |-> <<>>, model |-> <<"c", "l", "a", "u", "d", "e", "-", "3", "-", "5", "-", "s", "o", "n", "n", "e", "t", "-", "2", "0", "2", "4", "1", "0", "2", "2">>],
         gemini |-> [api_key |-> <<>>, model |-> <<"g", "e", "m", "i", "n", "i", "-", "p", "r", "o">>]],
     commit_format |->
        [types |-> DefaultTypes, max_title_length |-> [int |-> 72], include_body |-> TRUE],
     analysis |-> [max_diff_lines |-> 500],
     prompt_engineering |->
        [system_message |-> DefaultSystemMessage, reasoning_template |-> <<>>,
         output_format |-> <<>>, examples |-> <<>>],
     fallback_message |-> <<"c", "h", "o", "r", "e", ":", " ", "u", "p", "d", "a", "t", "e", " ", "f", "i", "l", "e", "s">>]

(***************************************************************************)
(* prompt_builder.py.  The long built-in texts are cut short; their        *)
(* replacement fields are kept.                                            *)
(***************************************************************************)
\* PromptBuilder._get_default_reasoning_template
DefaultReasoningTemplate ==
    <<"T", "A", "S", "K", ":", " ", "G", "e", "n", "e", "r", "a", "t", "e", " ", "a", " ", "g", "i", "t", " ", "c", "o", "m", "m", "i", "t", " ", "m", "e", "s", "s", "a", "g", "e", ".", "\n", "G", "i", "t", " ", "C", "h", "a", "n", "g", "e", "s", ":", "\n", "{", "d", "i", "f", "f", "}", "\n", "\n", "F", "i", "l", "e", "s", " ", "M", "o", "d", "i", "f", "i", "e", "d", ":", "\n", "{", "f", "i", "l", "e", "s", "}", "\n", "\n", "G", "e", "n", "e", "r", "a", "t", "e", " ", "t", "h", "e", " ", "c", "o", "m", "m", "i", "t", " ", "m", "e", "s", "s", "a", "g", "e", " ", "N", "O", "W", ":">>

\* PromptBuilder._get_default_output_format
DefaultOutputFormat == <<"P", "r", "o", "v", "i", "d", "e", " ", "y", "o", "u", "r", " ", "r", "e", "s", "p", "o", "n", "s", "e", " ", "i", "n", " ", "t", "h", "i", "s", " ", "e", "x", "a", "c", "t", " ", "f", "o", "r", "m", "a", "t", ":">>

\* PromptBuilder._get_default_examples
DefaultExamples ==
    << [diff |-> <<"A", "d", "d", "e", "d", " ", "J", "W", "T", " ", "v", "a", "l", "i", "d", "a", "t", "i", "o", "n">>, reasoning |-> <<"1", ".", " ", "A", "N", "A", "L", "Y", "Z", "E">>,
        output |-> <<"f", "e", "a", "t", "(", "a", "u", "t", "h", ")", ":", " ", "a", "d", "d", " ", "J", "W", "T", " ", "v", "a", "l", "i", "d", "a", "t", "i", "o", "n", " ", "m", "i", "d", "d", "l", "e", "w", "a", "r", "e">>],
       [diff |-> <<"F", "i", "x", "e", "d", " ", "n", "u", "l", "l", " ", "p", "o", "i", "n", "t", "e", "r">>, reasoning |-> <<"1", ".", " ", "A", "N", "A", "L", "Y", "Z", "E">>,
        output |-> <<"f", "i", "x", "(", "u", "s", "e", "r", ")", ":", " ", "p", "r", "e", "v", "e", "n", "t", " ", "n", "u", "l", "l", " ", "p", "o", "i", "n", "t", "e", "r", " ", "e", "x", "c", "e", "p", "t", "i", "o", "n">>] >>

Digits == <<"0", "1", "2", "3", "4", "5", "6", "7", "8", "9">>

\* str(n) of a natural number
RECURSIVE ToStr(_)
ToStr(n) == IF n < 10 THEN <<Digits[n + 1]>> ELSE ToStr(n \div 10) \o <<Digits[(n % 10) + 1]>>

\* str(v) of a configuration number
JsonStr(v) == IF "int" \in DOMAIN v THEN ToStr(v.int) ELSE v.str

\* str.format(diff=..., files=...) of a template: the fields {diff} and {files}
\* are replaced, '{{' and '}}' are braces, and any other field, a lone '}'
\* or an unclosed '{' raises (KeyError, ValueError).
RECURSIVE FormatTemplate(_, _, _)
FormatTemplate(t, d, fl) ==
    LET Then(text, rest) ==
            LET r == FormatTemplate(rest, d, fl)
            IN  IF r.ok THEN [ok |-> TRUE, text |-> text \o r.text, error |-> <<>>] ELSE r
        braces == {i \in 1..Len(t) : t[i] \in {"{", "}"}}
        b == Min(braces)
        literal == SubSeq(t, 1, b - 1)
        u == From(t, b)
        close == Find(u, <<"}">>, 2)
        name == SubSeq(u, 2, close - 1)
    IN  IF braces = {} THEN [ok |-> TRUE, text |-> t, error |-> <<>>]
        ELSE IF StartsWith(u, <<"{", "{">>) THEN Then(literal \o <<"{">>, From(u, 3))
        ELSE IF StartsWith(u, <<"}", "}">>) THEN Then(literal \o <<"}">>, From(u, 3))
        ELSE IF u[1] = "}"
        THEN [ok |-> FALSE, text |-> <<>>, error |-> <<"S", "i", "n", "g", "l", "e", " ", "'", "}", "'", " ", "e", "n", "c", "o", "u", "n", "t", "e", "r", "e", "d", " ", "i", "n", " ", "f", "o", "r", "m", "a", "t", " ", "s", "t", "r", "i", "n", "g">>]
        ELSE IF close = 0
        THEN [ok |-> FALSE, text |-> <<>>, error |-> <<"e", "x", "p", "e", "c", "t", "e", "d", " ", "'", "}", "'", " ", "b", "e", "f", "o", "r", "e", " ", "e", "n", "d", " ", "o", "f", " ", "s", "t", "r", "i", "n", "g">>]
        ELSE IF name = <<"d", "i", "f", "f">> THEN Then(literal \o d, From(u, close + 1))
        ELSE IF name = <<"f", "i", "l", "e", "s">> THEN Then(literal \o fl, From(u, close + 1))
        ELSE [ok |-> FALSE, text |-> <<>>, error |-> <<"'">> \o name \o <<"'">>]

\* The diff as build_reasoning_prompt embeds it: cut to max_diff_lines lines,
\* with a marker line, when it has more.
TruncateDiff(d, max_diff_lines) ==
    LET diff_lines == Split(d, <<"\n">>)
    IN  IF Len(diff_lines) > max_diff_lines
        THEN Join(SubSeq(diff_lines, 1, max_diff_lines), <<"\n">>)
             \o <<"\n", ".", ".", ".", " ", "(", "t", "r", "u", "n", "c", "a", "t", "e", "d", ",", " ", "s", "h", "o", "w", "i", "n", "g", " ", "f", "i", "r", "s", "t", " ">> \o ToStr(max_diff_lines) \o <<" ", "l", "i", "n", "e", "s", ")">>
        ELSE d

\* '\n'.join([f"  - {f}" for f in files])
FileListText(fs) == Join([i \in 1..Len(fs) |-> <<" ", " ", "-", " ">> \o fs[i]], <<"\n">>)

\* One entry of the list _format_examples joins.
ExampleText(i, ex) ==
    <<"\n", "E", "x", "a", "m", "p", "l", "e", " ">> \o ToStr(i) \o <<":", "\n", "C", "h", "a", "n", "g", "e", "s", ":", " ">> \o Get(ex, "diff", <<"N", "/", "A">>)
    \o <<"\n", "R", "e", "a", "s", "o", "n", "i", "n", "g", ":", " ">> \o Get(ex, "reasoning", <<"N", "/", "A">>)
    \o <<"\n", "O", "u", "t", "p", "u", "t", ":", " ">> \o Get(ex, "output", <<"N", "/", "A">>) \o <<"\n">>

\* PromptBuilder._format_examples
FormatExamples(prompt_config) ==
    LET examples == Get(prompt_config, "examples", DefaultExamples)
    IN  IF examples = <<>> THEN <<>>
        ELSE Join(<<<<"E", "x", "a", "m", "p", "l", "e", "s", " ", "o", "f", " ", "g", "o", "o", "d", " ", "c", "o", "m", "m", "i", "t", " ", "m", "e", "s", "s", "a", "g", "e", "s", ":">>>>
                  \o [i \in 1..Len(examples) |-> ExampleText(i, examples[i])], <<"\n">>)

\* x or dflt, for a string
OrDefault(x, dflt) == IF x # <<>> THEN x ELSE dflt

\* PromptBuilder.build_reasoning_prompt: ok = FALSE when it raises.
BuildReasoningPrompt(cfg, d, fs) ==
    LET prompt_config == Get(cfg, "prompt_engineering", <<>>)
        system == Get(prompt_config, "system_message", DefaultSystemMessage)
        reasoning_template ==
            OrDefault(Get(prompt_config, "reasoning_template", <<>>), DefaultReasoningTemplate)
        output_format ==
            OrDefault(Get(prompt_config, "output_format", <<>>), DefaultOutputFormat)
        examples == FormatExamples(prompt_config)
        commit_format == Get(cfg, "commit_format", <<>>)
        types == Join(Get(commit_format, "types",
                          <<<<"f", "e", "a", "t">>, <<"f", "i", "x">>, <<"d", "o", "c", "s">>, <<"s", "t", "y", "l", "e">>, <<"r", "e", "f", "a", "c", "t", "o", "r">>, <<"t", "e", "s", "t">>, <<"c", "h", "o", "r", "e">>>>),
                      <<",", " ">>)
        max_title == Get(commit_format, "max_title_length", [int |-> 72])
        max_diff_lines == Get(Get(cfg, "analysis", <<>>), "max_diff_lines", 500)
        body == FormatTemplate(reasoning_template, TruncateDiff(d, max_diff_lines),
                               FileListText(fs))
    IN  IF ~body.ok THEN [ok |-> FALSE, error |-> body.error, system |-> <<>>, user |-> <<>>]
        ELSE [ok |-> TRUE, error |-> <<>>, system |-> system,
              user |-> body.text \o <<"\n", "\n">> \o output_format \o <<"\n", "\n">> \o examples
                       \o <<"\n", "\n", "R", "e", "m", "e", "m", "b", "e", "r", ":", "\n", "-", " ", "T", "i", "t", "l", "e", " ", "m", "a", "x", " ">> \o JsonStr(max_title)
                       \o <<" ", "c", "h", "a", "r", "a", "c", "t", "e", "r", "s", "\n", "-", " ", "U", "s", "e", " ", "c", "o", "n", "v", "e", "n", "t", "i", "o", "n", "a", "l", " ", "c", "o", "m", "m", "i", "t", " ", "t", "y", "p", "e", "s", ":", " ">> \o types
                       \o <<"\n", "-", " ", "B", "e", " ", "s", "p", "e", "c", "i", "f", "i", "c", " ", "a", "b", "o", "u", "t", " ", "w", "h", "a", "t", " ", "c", "h", "a", "n", "g", "e", "d", " ", "a", "n", "d", " ", "w", "h", "y", "\n">>]

(***************************************************************************)
(* ai_providers: generate_commit_message, the same in the four providers   *)
(* but for the backend call.                                               *)
(***************************************************************************)
\* The dictionary of the except branch of generate_commit_message.
ErrorFallback(cfg, e) ==
    LET fallback == Get(cfg, "fallback_message", <<"c", "h", "o", "r", "e", ":", " ", "u", "p", "d", "a", "t", "e", " ", "f", "i", "l", "e", "s">>)
    IN  [reasoning |-> <<"E", "r", "r", "o", "r", ":", " ">> \o e, title |-> fallback, body |-> <<>>,
         full_message |-> fallback]

\* The dictionary generate returns when the provider is not available.
UnavailableFallback(cfg) ==
    LET fallback == Get(cfg, "fallback_message", <<"c", "h", "o", "r", "e", ":", " ", "u", "p", "d", "a", "t", "e", " ", "f", "i", "l", "e", "s">>)
    IN  [reasoning |-> <<"A", "I", " ", "p", "r", "o", "v", "i", "d", "e", "r", " ", "n", "o", "t", " ", "a", "v", "a", "i", "l", "a", "b", "l", "e">>, title |-> fallback, body |-> <<>>,
         full_message |-> fallback]

\* The error a failed backend call raises: str(e).
BackendError(provider) ==
    CASE provider = "ollama" -> <<"O", "l", "l", "a", "m", "a", " ", "e", "r", "r", "o", "r", ":", " ", "x">>
      [] provider = "openai" -> <<"O", "p", "e", "n", "A", "I", " ", "A", "P", "I", " ", "e", "r", "r", "o", "r", ":", " ", "5", "0", "0", " ", "-", " ", "x">>
      [] provider = "anthropic" -> <<"A", "n", "t", "h", "r", "o", "p", "i", "c", " ", "A", "P", "I", " ", "e", "r", "r", "o", "r", ":", " ", "5", "0", "0", " ", "-", " ", "x">>
      [] provider = "gemini" -> <<"G", "e", "m", "i", "n", "i", " ", "A", "P", "I", " ", "e", "r", "r", "o", "r", ":", " ", "5", "0", "0", " ", "-", " ", "x">>

\* result['title'] after the conventional-format step of generate_commit_message.
RepairedTitle(cfg, title) ==
    LET valid_types == Get(Get(cfg, "commit_format", <<>>), "types", <<>>)
    IN  IF valid_types # <<>> /\ ~ValidateConventionalCommit(title, valid_types)
        THEN FixCommitFormat(title, valid_types)
        ELSE title

\* result['title'] after the title-length step, for an integer max_length.
BoundedTitle(title, max_length) ==
    LET checked == ValidateTitleLength(title, max_length)
    IN  IF ~checked[1] THEN checked[2] ELSE title

\* The scope step without the rebuild of full_message.
SpliceScopeNoRebuild(res, sc) ==
    LET colon == Find(res.title, <<":">>, 1)
        title == SubSeq(res.title, 1, colon - 1) \o <<"(">> \o sc \o <<")", ":">>
                 \o From(res.title, colon + 1)
    IN  IF sc # <<>> /\ ~Contains(res.title, <<"(">>) /\ colon # 0
        THEN [res EXCEPT !.title = title]
        ELSE res

\* The scope step of MessageGenerator.generate.
SpliceScope(res, sc) ==
    LET colon == Find(res.title, <<":">>, 1)
        title == SubSeq(res.title, 1, colon - 1) \o <<"(">> \o sc \o <<")", ":">>
                 \o From(res.title, colon + 1)
    IN  IF sc # <<>> /\ ~Contains(res.title, <<"(">>) /\ colon # 0
        THEN [res EXCEPT !.title = title, !.full_message = FullMessage(title, res.body)]
        ELSE res

(***************************************************************************)
(* Spec: MessageGenerator.generate, step by step.                         *)
(***************************************************************************)
WithKey(provider, key) ==
    [DefaultConfig EXCEPT !.ai_provider = provider, !.providers[provider].api_key = key]

Configs ==
    {DefaultConfig,
     WithKey("openai", <<"s", "k", "-", "1">>), WithKey("openai", <<>>),
     WithKey("anthropic", <<"s", "k", "-", "a", "n", "t", "-", "1">>), WithKey("gemini", <<"k">>),
     [DefaultConfig EXCEPT !.commit_format.max_title_length = [int |-> 10]],
     [DefaultConfig EXCEPT !.commit_format.max_title_length = [str |-> <<"7", "2">>]],
     [DefaultConfig EXCEPT !.prompt_engineering.reasoning_template = <<"{", "d", "i", "f", "f", "}", " ", "i", "n", " ", "{", "s", "c", "o", "p", "e", "}">>],
     [DefaultConfig EXCEPT !.prompt_engineering.reasoning_template = <<"D", " ", "{", "d", "i", "f", "f", "}", " ", "F", " ", "{", "f", "i", "l", "e", "s", "}">>,
                           !.analysis.max_diff_lines = 2],
     [DefaultConfig EXCEPT !.fallback_message = <<"w", "i", "p">>],
     [DefaultConfig EXCEPT !.commit_format = [include_body |-> TRUE]]}

Diffs == {<<>>, <<"+", "f", "i", "x", " ", "a", "\n", "+", "a", "d", "d", " ", "b", "\n", "+", "c">>}

FileLists ==
    {<<<<"s", "r", "c", "/", "a", "u", "t", "h", "/", "l", "o", "g", "i", "n", ".", "p", "y">>>>, <<<<"a", ".", "p", "y">>, <<"b", ".", "p", "y">>>>, <<<<"s", "r", "c", "/", "m", "y", "_", "m", "o", "d", "/", "x", ".", "p", "y">>, <<"a", "p", "i", "/", "r", "o", "u", "t", "e", ".", "p", "y">>>>}

BackendPieces ==
    {<<"<", "c", "o", "m", "m", "i", "t", "_", "t", "i", "t", "l", "e", ">", "f", "e", "a", "t", ":", " ", "a", "d", "d", " ", "y", "<", "/", "c", "o", "m", "m", "i", "t", "_", "t", "i", "t", "l", "e", ">">>, <<"<", "c", "o", "m", "m", "i", "t", "_", "b", "o", "d", "y", ">", "B", "o", "d", "y", " ", "a", ".", " ", "b", "<", "/", "c", "o", "m", "m", "i", "t", "_", "b", "o", "d", "y", ">">>,
     <<"<", "r", "e", "a", "s", "o", "n", "i", "n", "g", ">", "w", "h", "y", "<", "/", "r", "e", "a", "s", "o", "n", "i", "n", "g", ">">>, TitleOpen, <<"f", "e", "a", "t", ":", " ", "x">>, <<"A", "d", "d", " ", "y", ".", " ", "z">>,
     <<"f", "i", "x", "(", "u", "i", ")", ":", " ", "l", "o", "n", "g", " ", "t", "i", "t", "l", "e", " ", "h", "e", "r", "e">>, <<"\n">>}

BackendResponses ==
    {Cat(ps) : ps \in UNION {[1..n -> BackendPieces] : n \in 0..MaxBackendPieces}}

Init ==
    /\ pc = "is_git_repository"
    /\ config \in Configs
    /\ diff = <<>>
    /\ files = <<>>
    /\ change_type = ""
    /\ scope = <<>>
    /\ prompt = NoPrompt
    /\ response = <<>>
    /\ result = NoResult
    /\ error = <<>>
    /\ calls = <<>>
    /\ ProcessStart
    /\ arg = NoCall
    /\ ret = NoCall

\* raise Exception(text) out of generate
Raise(text) ==
    /\ pc' = "raised"
    /\ error' = text

\* generate: if not GitAnalyzer.is_git_repository(): raise
IsGitRepository ==
    /\ pc = "is_git_repository"
    /\ calls' = Append(calls, "is_git_repository")
    /\ \E is_repo \in BOOLEAN :
        /\ ret' = [fn |-> "is_git_repository", value |-> is_repo]
        /\ IF is_repo THEN pc' = "has_staged_changes" /\ UNCHANGED error
           ELSE Raise(<<"N", "o", "t", " ", "a", " ", "g", "i", "t", " ", "r", "e", "p", "o", "s", "i", "t", "o", "r", "y">>)
    /\ UNCHANGED <<DEFAULT_CONFIG, conf_file, stdout>>
    /\ UNCHANGED <<config, diff, files, change_type, scope, prompt, response, result, arg>>

\* generate: if not GitAnalyzer.has_staged_changes(): raise
HasStagedChanges ==
    /\ pc = "has_staged_changes"
    /\ calls' = Append(calls, "has_staged_changes")
    /\ \E staged \in BOOLEAN :
        /\ ret' = [fn |-> "has_staged_changes", value |-> staged]
        /\ IF staged THEN pc' = "get_staged" /\ UNCHANGED error
           ELSE Raise(<<"N", "o", " ", "s", "t", "a", "g", "e", "d", " ", "c", "h", "a", "n", "g", "e", "s", " ", "t", "o", " ", "c", "o", "m", "m", "i", "t">>)
    /\ UNCHANGED <<DEFAULT_CONFIG, conf_file, stdout>>
    /\ UNCHANGED <<config, diff, files, change_type, scope, prompt, response, result, arg>>

\* generate going on to the analysis with an empty staged diff.
GetStagedNoDiffCheck ==
    /\ pc = "get_staged"
    /\ calls' = calls \o <<"get_staged_diff", "get_staged_files">>
    /\ \E d \in Diffs, fs \in FileLists :
        /\ diff' = d
        /\ files' = fs
        /\ pc' = "analyze"
        /\ UNCHANGED error
    /\ UNCHANGED <<DEFAULT_CONFIG, conf_file, stdout>>
    /\ UNCHANGED <<config, change_type, scope, prompt, response, result, arg, ret>>

\* generate: diff, files = get_staged_diff(), get_staged_files(); if not diff: raise
GetStaged ==
    /\ pc = "get_staged"
    /\ calls' = calls \o <<"get_staged_diff", "get_staged_files">>
    /\ \E d \in Diffs, fs \in FileLists :
        /\ diff' = d
        /\ files' = fs
        /\ IF d = <<>> THEN Raise(<<"N", "o", " ", "d", "i", "f", "f", " ", "a", "v", "a", "i", "l", "a", "b", "l", "e">>)
           ELSE pc' = "analyze" /\ UNCHANGED error
    /\ UNCHANGED <<DEFAULT_CONFIG, conf_file, stdout>>
    /\ UNCHANGED <<config, change_type, scope, prompt, response, result, arg, ret>>

\* generate: a git command of get_staged_diff or get_staged_files fails
GetStagedFails ==
    /\ pc = "get_staged"
    /\ \E which \in {"diff", "files"} :
        IF which = "diff"
        THEN /\ calls' = Append(calls, "get_staged_diff")
             /\ Raise(<<"F", "a", "i", "l", "e", "d", " ", "t", "o", " ", "g", "e", "t", " ", "g", "i", "t", " ", "d", "i", "f", "f", ":", " ", "x">>)
             /\ UNCHANGED diff
        ELSE /\ calls' = calls \o <<"get_staged_diff", "get_staged_files">>
             /\ \E d \in Diffs : diff' = d
             /\ Raise(<<"F", "a", "i", "l", "e", "d", " ", "t", "o", " ", "g", "e", "t", " ", "s", "t", "a", "g", "e", "d", " ", "f", "i", "l", "e", "s", ":", " ", "x">>)
    /\ UNCHANGED <<DEFAULT_CONFIG, conf_file, stdout>>
    /\ UNCHANGED <<config, files, change_type, scope, prompt, response, result, arg, ret>>

\* generate: change_type = detect_change_type(...); scope = analyze_scope(files)
Analyze ==
    /\ pc = "analyze"
    /\ calls' = calls \o <<"detect_change_type", "analyze_scope">>
    /\ change_type' = DetectChangeType(diff, files)
    /\ scope' = AnalyzeScope(files)
    /\ pc' = "is_available"
    /\ UNCHANGED <<DEFAULT_CONFIG, conf_file, stdout>>
    /\ UNCHANGED <<config, diff, files, prompt, response, result, error, arg, ret>>

\* provider.is_available(): the ollama command answers, or the API key is set.
Availabilities(cfg) ==
    IF cfg.ai_provider = "ollama" THEN BOOLEAN
    ELSE {Get(Get(Get(cfg, "providers", <<>>), cfg.ai_provider, <<>>), "api_key", <<>>) # <<>>}

\* generate going on to the provider call whatever is_available() answers.
IsAvailableIgnored ==
    /\ pc = "is_available"
    /\ calls' = Append(calls, "is_available")
    /\ \E available \in Availabilities(config) :
        /\ ret' = [fn |-> "is_available", value |-> available]
        /\ pc' = "build_prompt"
        /\ UNCHANGED result
    /\ UNCHANGED <<DEFAULT_CONFIG, conf_file, stdout>>
    /\ UNCHANGED <<config, diff, files, change_type, scope, prompt, response, error, arg>>

\* generate: if not self.provider.is_available(): return the fallback
IsAvailable ==
    /\ pc = "is_available"
    /\ calls' = Append(calls, "is_available")
    /\ \E available \in Availabilities(config) :
        /\ ret' = [fn |-> "is_available", value |-> available]
        /\ IF available THEN pc' = "build_prompt" /\ UNCHANGED result
           ELSE pc' = "done" /\ result' = UnavailableFallback(config)
    /\ UNCHANGED <<DEFAULT_CONFIG, conf_file, stdout>>
    /\ UNCHANGED <<config, diff, files, change_type, scope, prompt, response, error, arg>>

\* generate_commit_message: builder.build_reasoning_prompt(diff, files), before the try
BuildPrompt ==
    /\ pc = "build_prompt"
    /\ calls' = calls \o <<"generate_commit_message", "build_reasoning_prompt">>
    /\ LET built == BuildReasoningPrompt(config, diff, files)
       IN  IF built.ok
           THEN /\ prompt' = [system |-> built.system, user |-> built.user]
                /\ pc' = "call_backend"
                /\ UNCHANGED error
           ELSE /\ Raise(built.error)
                /\ UNCHANGED prompt
    /\ UNCHANGED <<DEFAULT_CONFIG, conf_file, stdout>>
    /\ UNCHANGED <<config, diff, files, change_type, scope, response, result, arg, ret>>

\* The except branch of generate_commit_message: the fallback dictionary is returned.
Except(e) ==
    /\ error' = e
    /\ result' = ErrorFallback(config, e)
    /\ pc' = "splice"

\* generate_commit_message: response = self._call_<backend>(system, user), in the try
CallBackend ==
    /\ pc = "call_backend"
    /\ \E r \in BackendResponses :
        /\ response' = r
        /\ pc' = "parse"
        /\ calls' = Append(calls, "call_backend")
        /\ UNCHANGED <<result, error>>
    /\ UNCHANGED <<DEFAULT_CONFIG, conf_file, stdout>>
    /\ UNCHANGED <<config, diff, files, change_type, scope, prompt, arg, ret>>

\* A backend call that is made a second time after it raised.
CallBackendRetried ==
    /\ pc = "call_backend"
    /\ IF ~(\E i \in 1..Len(calls) : calls[i] = "call_backend")
       THEN /\ calls' = Append(calls, "call_backend")
            /\ UNCHANGED <<pc, error, result>>
       ELSE /\ calls' = calls \o <<"call_backend", "except">>
            /\ Except(BackendError(config.ai_provider))
    /\ UNCHANGED <<DEFAULT_CONFIG, conf_file, stdout>>
    /\ UNCHANGED <<config, diff, files, change_type, scope, prompt, response, arg, ret>>

\* generate_commit_message: the backend call raises (exit code, HTTP status, timeout)
CallBackendFails ==
    /\ pc = "call_backend"
    /\ calls' = calls \o <<"call_backend", "except">>
    /\ Except(BackendError(config.ai_provider))
    /\ UNCHANGED <<DEFAULT_CONFIG, conf_file, stdout>>
    /\ UNCHANGED <<config, diff, files, change_type, scope, prompt, response, arg, ret>>

\* generate_commit_message: result = parser.parse_structured_response(response)
Parse ==
    /\ pc = "parse"
    /\ calls' = Append(calls, "parse_structured_response")
    /\ result' = ParseStructuredResponse(response)
    /\ pc' = "fix_format"
    /\ UNCHANGED <<DEFAULT_CONFIG, conf_file, stdout>>
    /\ UNCHANGED <<config, diff, files, change_type, scope, prompt, response, error, arg, ret>>

\* generate_commit_message: validate the conventional format, fix the title if needed
FixFormat ==
    /\ pc = "fix_format"
    /\ calls' = Append(calls, "validate_conventional_commit")
    /\ result' = [result EXCEPT !.title = RepairedTitle(config, result.title)]
    /\ pc' = "fix_length"
    /\ UNCHANGED <<DEFAULT_CONFIG, conf_file, stdout>>
    /\ UNCHANGED <<config, diff, files, change_type, scope, prompt, response, error, arg, ret>>

\* generate_commit_message: validate the title length (a max_title_length that is
\* no number makes the comparison raise), then rebuild full_message and return
FixLength ==
    /\ pc = "fix_length"
    /\ LET max_length == Get(Get(config, "commit_format", <<>>), "max_title_length", [int |-> 72])
       IN  IF "int" \in DOMAIN max_length
           THEN /\ calls' = Append(calls, "validate_title_length")
                /\ LET title == BoundedTitle(result.title, max_length.int)
                   IN  result' = [result EXCEPT !.title = title,
                                                !.full_message = FullMessage(title, result.body)]
                /\ pc' = "splice"
                /\ UNCHANGED error
           ELSE /\ calls' = calls \o <<"validate_title_length", "except">>
                /\ Except(<<"'", "<", "=", "'", " ", "n", "o", "t", " ", "s", "u", "p", "p", "o", "r", "t", "e", "d", " ", "b", "e", "t", "w", "e", "e", "n", " ", "i", "n", "s", "t", "a", "n", "c", "e", "s", " ", "o", "f", " ", "'", "i", "n", "t", "'", " ", "a", "n", "d", " ", "'", "s", "t", "r", "'">>)
    /\ UNCHANGED <<DEFAULT_CONFIG, conf_file, stdout>>
    /\ UNCHANGED <<config, diff, files, change_type, scope, prompt, response, arg, ret>>

\* The scope step splitting the title at its last colon.
SpliceLastColon ==
    /\ pc = "splice"
    /\ LET colon == RFind(result.title, <<":">>)
           title == SubSeq(result.title, 1, colon - 1) \o <<"(">> \o scope \o <<")", ":">>
                    \o From(result.title, colon + 1)
       IN  result' = IF scope # <<>> /\ ~Contains(result.title, <<"(">>) /\ colon # 0
                     THEN [result EXCEPT !.title = title,
                                         !.full_message = FullMessage(title, result.body)]
                     ELSE result
    /\ pc' = "done"
    /\ UNCHANGED <<DEFAULT_CONFIG, conf_file, stdout>>
    /\ UNCHANGED <<config, diff, files, change_type, scope, prompt, response, error, calls, arg, ret>>

\* generate: add the detected scope to the title, return result
Splice ==
    /\ pc = "splice"
    /\ result' = SpliceScope(result, scope)
    /\ pc' = "done"
    /\ UNCHANGED <<DEFAULT_CONFIG, conf_file, stdout>>
    /\ UNCHANGED <<config, diff, files, change_type, scope, prompt, response, error, calls, arg, ret>>

Next ==
    \/ IsGitRepository
    \/ HasStagedChanges
    \/ GetStaged
    \/ GetStagedFails
    \/ Analyze
    \/ IsAvailable
    \/ BuildPrompt
    \/ CallBackend
    \/ CallBackendFails
    \/ Parse
    \/ FixFormat
    \/ FixLength
    \/ Splice

Spec == Init /\ [][Next]_vars

(***************************************************************************)
(* Runs of one function of context_analyzer.py or prompt_builder.py: the   *)
(* variables of generate keep the values no call has set.                  *)
(***************************************************************************)
NotGenerating ==
    /\ config = NoConfig
    /\ diff = <<>>
    /\ files = <<>>
    /\ change_type = ""
    /\ scope = <<>>
    /\ prompt = NoPrompt
    /\ response = <<>>
    /\ result = NoResult
    /\ error = <<>>
    /\ calls = <<>>
    /\ ProcessStart

(***************************************************************************)
(* SpecDetect: detect_change_type applied to a diff and a file list.       *)
(***************************************************************************)
DetectDiffPieces ==
    {<<"f", "i", "x">>, <<"B", "u", "g">>, <<"a", "d", "d">>, <<"N", "E", "W">>, <<"t", "e", "s", "t">>, <<"p", "y", "t", "e", "s", "t">>, <<"r", "e", "f", "a", "c", "t", "o", "r">>, <<"o", "p", "t", "i", "m", "i", "z", "e">>, <<"l", "i", "n", "t">>,
     <<"x", "\n">>}

DetectDiffs == {Cat(ps) : ps \in UNION {[1..n -> DetectDiffPieces] : n \in 0..MaxDiffPieces}}

DetectFileLists ==
    {<<>>, <<<<"a", ".", "p", "y">>>>, <<<<"R", "E", "A", "D", "M", "E", ".", "m", "d">>>>, <<<<"R", "E", "A", "D", "M", "E", ".", "M", "D">>>>, <<<<"D", "o", "c", "/", "a", ".", "p", "y">>>>,
     <<<<"t", "e", "s", "t", "s", "/", "a", ".", "p", "y">>>>, <<<<"a", "_", "S", "p", "e", "c", ".", "r", "b">>>>, <<<<"a", ".", "p", "y">>, <<"n", "o", "t", "e", "s", ".", "t", "x", "t">>>>, <<<<"a", ".", "r", "s", "t">>, <<"t", "e", "s", "t", "_", "a", ".", "p", "y">>>>}

InitDetect ==
    /\ pc = "call"
    /\ arg \in {[diff |-> d, files |-> fs] : d \in DetectDiffs, fs \in DetectFileLists}
    /\ ret = "none"
    /\ NotGenerating

CallDetectChangeType ==
    /\ pc = "call"
    /\ ret' = DetectChangeType(arg.diff, arg.files)
    /\ pc' = "return"
    /\ UNCHANGED <<DEFAULT_CONFIG, conf_file, stdout>>
    /\ UNCHANGED <<config, diff, files, change_type, scope, prompt, response, result, error, calls, arg>>

NextDetect == CallDetectChangeType

SpecDetect == InitDetect /\ [][NextDetect]_vars

(***************************************************************************)
(* SpecBody: should_include_body applied to a diff and a configuration.    *)
(***************************************************************************)
\* str.count(p): the occurrences of p in s, left to right, not overlapping.
RECURSIVE Count(_, _)
Count(s, p) ==
    LET i == Find(s, p, 1)
    IN  IF i = 0 THEN 0 ELSE 1 + Count(From(s, i + Len(p)), p)

\* should_include_body answering no for a middle-sized diff of a single file.
ShouldIncludeBodySingleFileNo(d, cfg) ==
    LET diff_lines == Len(Split(d, <<"\n">>))
    IN  IF ~Get(Get(cfg, "commit_format", <<>>), "include_body", TRUE) THEN FALSE
        ELSE IF diff_lines < 5 THEN FALSE
        ELSE IF diff_lines > 20 THEN TRUE
        ELSE IF Count(d, <<"d", "i", "f", "f", " ", "-", "-", "g", "i", "t">>) > 1 THEN TRUE
        ELSE FALSE

\* ContextAnalyzer.should_include_body
ShouldIncludeBody(d, cfg) ==
    LET diff_lines == Len(Split(d, <<"\n">>))
    IN  IF ~Get(Get(cfg, "commit_format", <<>>), "include_body", TRUE) THEN FALSE
        ELSE IF diff_lines < 5 THEN FALSE
        ELSE IF diff_lines > 20 THEN TRUE
        ELSE IF Count(d, <<"d", "i", "f", "f", " ", "-", "-", "g", "i", "t">>) > 1 THEN TRUE
        ELSE TRUE

BodyDiffPieces ==
    {<<"\n">>, <<"\n", "\n", "\n">>, <<"\n", "\n", "\n", "\n", "\n", "\n", "\n", "\n", "\n", "\n">>, <<"d", "i", "f", "f", " ", "-", "-", "g", "i", "t", " ", "a", " ", "b", "\n">>, <<"+", "x">>}

BodyDiffs == {Cat(ps) : ps \in UNION {[1..n -> BodyDiffPieces] : n \in 0..MaxBodyPieces}}

\* include_body true, false, left out, and commit_format left out.
BodyConfigs ==
    {DefaultConfig,
     [DefaultConfig EXCEPT !.commit_format.include_body = FALSE],
     [commit_format |-> [types |-> DefaultTypes], fallback_message |-> <<"c", "h", "o", "r", "e", ":", " ", "u", "p", "d", "a", "t", "e", " ", "f", "i", "l", "e", "s">>],
     [fallback_message |-> <<"c", "h", "o", "r", "e", ":", " ", "u", "p", "d", "a", "t", "e", " ", "f", "i", "l", "e", "s">>]}

InitBody ==
    /\ pc = "call"
    /\ arg \in {[diff |-> d, config |-> c] : d \in BodyDiffs, c \in BodyConfigs}
    /\ ret = FALSE
    /\ NotGenerating

CallShouldIncludeBody ==
    /\ pc = "call"
    /\ ret' = ShouldIncludeBody(arg.diff, arg.config)
    /\ pc' = "return"
    /\ UNCHANGED <<DEFAULT_CONFIG, conf_file, stdout>>
    /\ UNCHANGED <<config, diff, files, change_type, scope, prompt, response, result, error, calls, arg>>

NextBody == CallShouldIncludeBody

SpecBody == InitBody /\ [][NextBody]_vars

(***************************************************************************)
(* SpecPrompt: build_reasoning_prompt applied to a configuration, a diff   *)
(* and a file list.                                                        *)
(***************************************************************************)
PromptKeys == {"system_message", "reasoning_template", "output_format", "examples"}

\* Values a user gives to the keys of prompt_engineering.
CustomPrompt ==
    [system_message |-> <<"S", "Y", "S">>, reasoning_template |-> <<"D", " ", "{", "d", "i", "f", "f", "}", " ", "F", " ", "{", "f", "i", "l", "e", "s", "}">>,
     output_format |-> <<"O", "U", "T">>, examples |-> <<[diff |-> <<"d", "1">>, output |-> <<"o", "1">>]>>]

\* prompt_engineering with each key left out, empty or given.
PromptEngineerings ==
    {[k \in {x \in PromptKeys : c[x] # "absent"} |->
            IF c[k] = "empty" THEN <<>> ELSE CustomPrompt[k]] :
        c \in [PromptKeys -> {"absent", "empty", "custom"}]}

PromptConfigs ==
    {[DefaultConfig EXCEPT !.prompt_engineering = pe, !.analysis.max_diff_lines = n] :
        pe \in PromptEngineerings, n \in 1..MaxDiffLines}
    \cup {DefaultConfig}

PromptDiffPieces == {<<"+", "a">>, <<"\n">>, <<"-", "b", "\n">>}

PromptDiffs == {Cat(ps) : ps \in UNION {[1..n -> PromptDiffPieces] : n \in 0..MaxPromptPieces}}

PromptFileLists == {<<>>, <<<<"a", ".", "p", "y">>, <<"b", ".", "p", "y">>>>}

InitPrompt ==
    /\ pc = "call"
    /\ arg \in {[config |-> c, diff |-> d, files |-> fs] :
                    c \in PromptConfigs, d \in PromptDiffs, fs \in PromptFileLists}
    /\ ret = [ok |-> TRUE, error |-> <<>>, system |-> <<>>, user |-> <<>>]
    /\ NotGenerating

CallBuildReasoningPrompt ==
    /\ pc = "call"
    /\ ret' = BuildReasoningPrompt(arg.config, arg.diff, arg.files)
    /\ pc' = IF ret'.ok THEN "return" ELSE "raised"
    /\ UNCHANGED <<DEFAULT_CONFIG, conf_file, stdout>>
    /\ UNCHANGED <<config, diff, files, change_type, scope, prompt, response, result, error, calls, arg>>

NextPrompt == CallBuildReasoningPrompt

SpecPrompt == InitPrompt /\ [][NextPrompt]_vars

(***************************************************************************)
(* SpecScope: analyze_scope applied to a file list.                        *)
(***************************************************************************)
ScopePaths ==
    {<<"s", "r", "c", "/", "c", "o", "r", "e", "/", "l", "o", "g", "i", "n", ".", "p", "y">>, <<"s", "r", "c", "/", "a", "u", "t", "h", "/", "l", "o", "g", "i", "n", ".", "p", "y">>, <<"s", "r", "c", "/", "a", "u", "t", "h", "/", "s", "e", "s", "s", "i", "o", "n", ".", "p", "y">>, <<"l", "o", "g", "i", "n", ".", "p", "y">>,
     <<"R", "E", "A", "D", "M", "E", ".", "m", "d">>, <<"s", "r", "c", "/", "l", "i", "b", "/", "T", "o", "k", "e", "n", ".", "p", "y">>, <<"m", "y", "_", "m", "o", "d", "/", "a", " ", "b", "/", "x", ".", "p", "y">>, <<"a", " ", "b", "/", "x", ".", "p", "y">>, <<"a", "p", "i", "_", "r", "o", "u", "t", "e", "s", ".", "p", "y">>,
     <<"u", "i", "/", "V", "i", "e", "w", ".", "t", "s", "x">>, <<".", "/", "s", "r", "c", "/", "s", "e", "t", "t", "i", "n", "g", "s", ".", "p", "y">>, <<"s", "r", "c", "/", "x", ".", "p", "y">>}

ScopeFileLists == UNION {[1..n -> ScopePaths] : n \in 0..MaxScopeFiles}

InitScope ==
    /\ pc = "call"
    /\ arg \in {[files |-> fs] : fs \in ScopeFileLists}
    /\ ret = <<>>
    /\ NotGenerating

CallAnalyzeScope ==
    /\ pc = "call"
    /\ ret' = AnalyzeScope(arg.files)
    /\ pc' = "return"
    /\ UNCHANGED <<DEFAULT_CONFIG, conf_file, stdout>>
    /\ UNCHANGED <<config, diff, files, change_type, scope, prompt, response, result, error, calls, arg>>

NextScope == CallAnalyzeScope

SpecScope == InitScope /\ [][NextScope]_vars

(***************************************************************************)
(* config.py: load, set_value, save and create_default, with the           *)
(* dictionaries they share.                                                *)
(***************************************************************************)
\* Config._deep_merge(base, override): the dictionary base afterwards.
RECURSIVE DeepMerge(_, _)
DeepMerge(base, override) ==
    [k \in DOMAIN base \cup DOMAIN override |->
        IF k \notin DOMAIN override THEN base[k]
        ELSE IF k \in DOMAIN base /\ IsDict(base[k]) /\ IsDict(override[k])
             THEN Dict(DeepMerge(base[k].d, override[k].d))
             ELSE override[k]]

\* No dictionary held.
NoHeld == [own |-> <<>>, shared |-> {}]

\* DEFAULT_CONFIG.copy(): a new top-level dictionary whose dictionary-valued
\* keys are bound to the sections of DEFAULT_CONFIG themselves.
ShallowCopy(dc) ==
    [own |-> [k \in {x \in DOMAIN dc : ~IsDict(dc[x])} |-> dc[k]],
     shared |-> {x \in DOMAIN dc : IsDict(dc[x])}]

\* What the held dictionary c reads as, the sections of DEFAULT_CONFIG being dc.
Value(c, dc) ==
    [k \in DOMAIN c.own \cup c.shared |-> IF k \in c.shared THEN dc[k] ELSE c.own[k]]

\* Config.load: the dictionary returned, DEFAULT_CONFIG afterwards, and
\* whether the warning of the except branch was printed.
LoadConfig(file, dc) ==
    IF file.kind = "json"
    THEN LET user_config == file.value
             merged == {k \in DOMAIN dc \cap DOMAIN user_config :
                            IsDict(dc[k]) /\ IsDict(user_config[k])}
             shared == ShallowCopy(dc).shared \ (DOMAIN user_config \ merged)
         IN  [config |->
                [own |-> [k \in (DOMAIN dc \cup DOMAIN user_config) \ shared |->
                            IF k \in DOMAIN user_config THEN user_config[k] ELSE dc[k]],
                 shared |-> shared],
              defaults |->
                [k \in DOMAIN dc |->
                    IF k \in merged THEN Dict(DeepMerge(dc[k].d, user_config[k].d)) ELSE dc[k]],
              warned |-> FALSE]
    ELSE [config |-> ShallowCopy(dc), defaults |-> dc, warned |-> file.kind = "garbage"]

\* The line Config.load prints when the file cannot be parsed, cut short.
LoadWarning == <<"W", "a", "r", "n", "i", "n", "g", ":", " ", "F", "a", "i", "l", "e", "d", " ", "t", "o", " ", "l", "o", "a", "d", " ", "c", "o", "n", "f", "i", "g">>

\* The loop and the assignment of Config.set_value on the dictionary f.
RECURSIVE SetPath(_, _, _)
SetPath(f, keys, value) ==
    LET k == Head(keys)
        current == IF k \in DOMAIN f /\ IsDict(f[k]) THEN f[k].d ELSE <<>>
    IN  [x \in DOMAIN f \cup {k} |->
            IF x # k THEN f[x]
            ELSE IF Len(keys) = 1 THEN value
            ELSE Dict(SetPath(current, Tail(keys), value))]

\* Config.set_value(key, value, config) on the held dictionary c: the
\* dictionary and DEFAULT_CONFIG afterwards.  keys is key.split('.').
SetValueIn(c, dc, keys, value) ==
    LET k == Head(keys)
    IN  IF Len(keys) > 1 /\ k \in c.shared
        THEN [config |-> c,
              defaults |-> [dc EXCEPT ![k] = Dict(SetPath(dc[k].d, Tail(keys), value))]]
        ELSE [config |-> [own |-> SetPath(c.own, keys, value), shared |-> c.shared \ {k}],
              defaults |-> dc]

\* json.dump(config) written to the file.
Saved(c, dc) == [kind |-> "json", value |-> Value(c, dc)]

\* MessageGenerator._get_provider and the provider's __init__: the api_key
\* of the provider called name in the configuration cfg.
ProviderApiKey(cfg, name) ==
    LET providers_config == IF "providers" \in DOMAIN cfg THEN cfg.providers.d ELSE <<>>
        provider_config == IF name \in DOMAIN providers_config
                           THEN providers_config[name].d ELSE <<>>
    IN  IF "api_key" \in DOMAIN provider_config THEN provider_config.api_key.v ELSE <<>>

(***************************************************************************)
(* SpecConfig: processes that load, edit and save the configuration, and   *)
(* a user who rewrites the file between them.                              *)
(***************************************************************************)
ConfFiles ==
    {NoFile,
     [kind |-> "garbage"],
     [kind |-> "json", value |-> [fallback_message |-> Val(<<"w", "i", "p">>)]],
     [kind |-> "json", value |->
        [ai_provider |-> Val("openai"),
         providers |-> Dict([openai |-> Dict([api_key |-> Val(<<"s", "k", "-", "0">>)])])]],
     [kind |-> "json", value |->
        [custom |-> Dict([a |-> Val(<<"1">>)]),
         commit_format |-> Dict([include_body |-> Val(FALSE)])]]}

\* key.split('.') of the keys given to 'config set'.
SetKeys ==
    {<<"openai", "api_key">>, <<"anthropic", "api_key">>, <<"providers", "openai", "api_key">>,
     <<"fallback_message">>}

SetValues == {<<"s", "k", "-", "1">>}

InitConfig ==
    /\ pc = "idle"
    /\ config = NoHeld
    /\ diff = <<>>
    /\ files = <<>>
    /\ change_type = ""
    /\ scope = <<>>
    /\ prompt = NoPrompt
    /\ response = <<>>
    /\ result = NoResult
    /\ error = <<>>
    /\ calls = <<>>
    /\ arg = NoCall
    /\ ret = NoCall
    /\ DEFAULT_CONFIG = DocumentedDefaults
    /\ conf_file \in ConfFiles
    /\ stdout = <<>>

\* config = Config.load()
ConfigLoad ==
    /\ Len(calls) < MaxConfigSteps
    /\ LET loaded == LoadConfig(conf_file, DEFAULT_CONFIG)
       IN  /\ config' = loaded.config
           /\ DEFAULT_CONFIG' = loaded.defaults
           /\ stdout' = IF loaded.warned THEN Append(stdout, LoadWarning) ELSE stdout
           /\ ret' = [fn |-> "load", file |-> conf_file,
                      value |-> Value(loaded.config, loaded.defaults)]
    /\ calls' = Append(calls, [op |-> "load"])
    /\ pc' = "running"
    /\ UNCHANGED <<diff, files, change_type, scope, prompt, response, result, error, arg, conf_file>>

\* Config.set_value(key, value, config) on the dictionary the process holds
ConfigSetValue ==
    /\ Len(calls) < MaxConfigSteps
    /\ pc = "running"
    /\ \E keys \in SetKeys, value \in SetValues :
        LET set == SetValueIn(config, DEFAULT_CONFIG, keys, Val(value))
        IN  /\ config' = set.config
            /\ DEFAULT_CONFIG' = set.defaults
            /\ ret' = [fn |-> "set_value", value |-> Value(set.config, set.defaults)]
            /\ calls' = Append(calls, [op |-> "set_value", key |-> keys, value |-> value])
    /\ UNCHANGED <<pc, diff, files, change_type, scope, prompt, response, result, error, arg,
                   conf_file, stdout>>

\* Config.save(config)
ConfigSave ==
    /\ Len(calls) < MaxConfigSteps
    /\ pc = "running"
    /\ conf_file' = Saved(config, DEFAULT_CONFIG)
    /\ calls' = Append(calls, [op |-> "save"])
    /\ UNCHANGED <<pc, config, diff, files, change_type, scope, prompt, response, result, error,
                   arg, ret, DEFAULT_CONFIG, stdout>>

\* Config.create_default(): save(DEFAULT_CONFIG.copy())
ConfigCreateDefault ==
    /\ Len(calls) < MaxConfigSteps
    /\ conf_file' = Saved(ShallowCopy(DEFAULT_CONFIG), DEFAULT_CONFIG)
    /\ calls' = Append(calls, [op |-> "create_default"])
    /\ UNCHANGED <<pc, config, diff, files, change_type, scope, prompt, response, result, error,
                   arg, ret, DEFAULT_CONFIG, stdout>>

\* cmd_config, 'set <key> <value>': config = Config.set_value(key, value), which
\* loads the file; Config.save(config); print, cut short to the value
CmdConfigSet ==
    /\ Len(calls) < MaxConfigSteps
    /\ pc = "idle"
    /\ \E keys \in SetKeys, value \in SetValues :
        LET loaded == LoadConfig(conf_file, DEFAULT_CONFIG)
            set == SetValueIn(loaded.config, loaded.defaults, keys, Val(value))
        IN  /\ config' = set.config
            /\ DEFAULT_CONFIG' = set.defaults
            /\ conf_file' = Saved(set.config, set.defaults)
            /\ stdout' = (IF loaded.warned THEN Append(stdout, LoadWarning) ELSE stdout)
                         \o <<<<"S", "e", "t", " ">> \o value>>
            /\ calls' = Append(calls, [op |-> "cmd_config_set", key |-> keys, value |-> value])
    /\ pc' = "running"
    /\ UNCHANGED <<diff, files, change_type, scope, prompt, response, result, error, arg, ret>>

\* What the wizard assigns for the provider: the model chosen (nothing when
\* the installation of ollama failed), or the API key typed (nothing when empty).
SetupAnswers(provider) ==
    IF provider = "ollama" THEN {<<>>, <<"c", "o", "d", "e", "l", "l", "a", "m", "a", ":", "7", "b">>} ELSE {<<>>, <<"s", "k", "-", "2">>}

\* cmd_setup: config = Config.load(); the answers of the wizard are assigned
\* into config; Config.save(config).  The file exists after the save, so the
\* cmd_install that may follow does not call create_default.  Of the lines
\* printed only the last is kept.
CmdSetup ==
    /\ Len(calls) < MaxConfigSteps
    /\ pc = "idle"
    /\ \E provider \in {"ollama", "openai"}, use_conventional \in BOOLEAN, include_body \in BOOLEAN :
       \E answer \in SetupAnswers(provider) :
        LET loaded == LoadConfig(conf_file, DEFAULT_CONFIG)
            c1 == SetValueIn(loaded.config, loaded.defaults, <<"ai_provider">>, Val(provider))
            c2 == IF answer = <<>> THEN c1
                  ELSE SetValueIn(c1.config, c1.defaults,
                                  <<"providers", provider,
                                    IF provider = "ollama" THEN "model" ELSE "api_key">>,
                                  Val(answer))
            c3 == IF answer = <<>> THEN c2
                  ELSE SetValueIn(c2.config, c2.defaults, <<"providers", provider, "enabled">>,
                                  Val(TRUE))
            c4 == SetValueIn(c3.config, c3.defaults,
                             <<"commit_format", "use_conventional_commits">>, Val(use_conventional))
            c5 == SetValueIn(c4.config, c4.defaults, <<"commit_format", "include_body">>,
                             Val(include_body))
        IN  /\ config' = c5.config
            /\ DEFAULT_CONFIG' = c5.defaults
            /\ conf_file' = Saved(c5.config, c5.defaults)
            /\ stdout' = (IF loaded.warned THEN Append(stdout, LoadWarning) ELSE stdout)
                         \o <<<<"C", "o", "n", "f", "i", "g", "u", "r", "a", "t", "i", "o", "n", " ", "s", "a", "v", "e", "d">>>>
            /\ calls' = Append(calls, [op |-> "cmd_setup", provider |-> provider,
                                       answer |-> answer])
    /\ pc' = "running"
    /\ UNCHANGED <<diff, files, change_type, scope, prompt, response, result, error, arg, ret>>

\* The user rewrites or removes commit-ai.conf.
WriteConfFile ==
    /\ Len(calls) < MaxConfigSteps
    /\ conf_file' \in ConfFiles \ {conf_file}
    /\ calls' = Append(calls, [op |-> "write_file"])
    /\ UNCHANGED <<pc, config, diff, files, change_type, scope, prompt, response, result, error,
                   arg, ret, DEFAULT_CONFIG, stdout>>

\* The process ends; the next command starts with the class as imported.
ExitProcess ==
    /\ Len(calls) < MaxConfigSteps
    /\ pc = "running"
    /\ pc' = "idle"
    /\ config' = NoHeld
    /\ DEFAULT_CONFIG' = DocumentedDefaults
    /\ stdout' = <<>>
    /\ ret' = NoCall
    /\ calls' = Append(calls, [op |-> "exit"])
    /\ UNCHANGED <<diff, files, change_type, scope, prompt, response, result, error, arg, conf_file>>

NextConfig ==
    \/ ConfigLoad
    \/ ConfigSetValue
    \/ ConfigSave
    \/ ConfigCreateDefault
    \/ CmdConfigSet
    \/ CmdSetup
    \/ WriteConfFile
    \/ ExitProcess

SpecConfig == InitConfig /\ [][NextConfig]_vars

(***************************************************************************)
(* SpecCli: cmd_generate, the command the commit hook runs.                *)
(***************************************************************************)
\* The dictionary json.load gives for the document f.
RECURSIVE Untag(_)
Untag(f) == [k \in DOMAIN f |-> IF IsDict(f[k]) THEN Untag(f[k].d) ELSE f[k].v]

CliConfFiles ==
    ConfFiles \cup
    {[kind |-> "json", value |-> [ai_provider |-> Val("bogus"), fallback_message |-> Val(<<"w", "i", "p">>)]]}

\* provider_map of MessageGenerator._get_provider
ProviderMap == {"ollama", "openai", "anthropic", "gemini"}

InitCli ==
    /\ pc = "cmd_generate"
    /\ config = NoConfig
    /\ diff = <<>>
    /\ files = <<>>
    /\ change_type = ""
    /\ scope = <<>>
    /\ prompt = NoPrompt
    /\ response = <<>>
    /\ result = NoResult
    /\ error = <<>>
    /\ calls = <<>>
    /\ arg = NoCall
    /\ ret = NoCall
    /\ DEFAULT_CONFIG = DocumentedDefaults
    /\ conf_file \in CliConfFiles
    /\ stdout = <<>>

\* cmd_generate: config = Config.load(); generator = MessageGenerator(config),
\* whose _get_provider raises for a name that is not in provider_map
CmdGenerateStart ==
    /\ pc = "cmd_generate"
    /\ calls' = calls \o <<"load", "MessageGenerator">>
    /\ LET loaded == LoadConfig(conf_file, DEFAULT_CONFIG)
           cfg == Untag(Value(loaded.config, loaded.defaults))
       IN  /\ config' = cfg
           /\ DEFAULT_CONFIG' = loaded.defaults
           /\ stdout' = IF loaded.warned THEN Append(stdout, LoadWarning) ELSE stdout
           /\ IF cfg.ai_provider \in ProviderMap
              THEN pc' = "is_git_repository" /\ UNCHANGED error
              ELSE Raise(<<"U", "n", "k", "n", "o", "w", "n", " ", "p", "r", "o", "v", "i", "d", "e", "r", ":", " ">> \o <<"b", "o", "g", "u", "s">>)
    /\ UNCHANGED <<diff, files, change_type, scope, prompt, response, result, arg, ret, conf_file>>

\* cmd_generate: print(result['full_message'])
CmdGeneratePrint ==
    /\ pc = "done"
    /\ stdout' = Append(stdout, result.full_message)
    /\ calls' = Append(calls, "print_full_message")
    /\ pc' = "exit"
    /\ UNCHANGED <<config, diff, files, change_type, scope, prompt, response, result, error, arg,
                   ret, DEFAULT_CONFIG, conf_file>>

\* cmd_generate, except Exception: config = Config.load();
\* print(config.get('fallback_message', 'chore: update files'))
CmdGenerateExcept ==
    /\ pc = "raised"
    /\ calls' = calls \o <<"load", "print_fallback">>
    /\ LET loaded == LoadConfig(conf_file, DEFAULT_CONFIG)
           cfg == Untag(Value(loaded.config, loaded.defaults))
       IN  /\ config' = cfg
           /\ DEFAULT_CONFIG' = loaded.defaults
           /\ stdout' = (IF loaded.warned THEN Append(stdout, LoadWarning) ELSE stdout)
                        \o <<Get(cfg, "fallback_message", <<"c", "h", "o", "r", "e", ":", " ", "u", "p", "d", "a", "t", "e", " ", "f", "i", "l", "e", "s">>)>>
    /\ pc' = "exit"
    /\ UNCHANGED <<diff, files, change_type, scope, prompt, response, result, error, arg, ret,
                   conf_file>>

NextCli ==
    \/ CmdGenerateStart
    \/ IsGitRepository
    \/ HasStagedChanges
    \/ GetStaged
    \/ GetStagedFails
    \/ Analyze
    \/ IsAvailable
    \/ BuildPrompt
    \/ CallBackend
    \/ CallBackendFails
    \/ Parse
    \/ FixFormat
    \/ FixLength
    \/ Splice
    \/ CmdGeneratePrint
    \/ CmdGenerateExcept

SpecCli == InitCli /\ [][NextCli]_vars

(***************************************************************************)
(* Properties.                                                             *)
(***************************************************************************)
\* The name c was invoked.
Invoked(c) == \E i \in 1..Len(calls) : calls[i] = c

\* config.get('fallback_message', 'chore: update files')
ConfiguredFallback == Get(config, "fallback_message", <<"c", "h", "o", "r", "e", ":", " ", "u", "p", "d", "a", "t", "e", " ", "f", "i", "l", "e", "s">>)

TagPairs ==
    {<<ReasoningOpen, ReasoningClose>>, <<TitleOpen, TitleClose>>, <<BodyOpen, BodyClose>>}

\* s is blank but for sections <tag>...</tag> that enclose only blanks.
RECURSIVE IsBlankResponse(_)
IsBlankResponse(s) ==
    LET t == LStrip(s)
    IN  \/ t = <<>>
        \/ \E p \in TagPairs :
            /\ StartsWith(t, p[1])
            /\ LET u == LStrip(From(t, Len(p[1]) + 1))
               IN  StartsWith(u, p[2]) /\ IsBlankResponse(From(u, Len(p[2]) + 1))

\* C1: parse_structured_response returns a non-empty title for every raw
\* response; for an empty or blank response, and for one whose tags enclose
\* only blanks, the title is 'chore: update files' and the body is empty.
C1_TitleNeverEmpty ==
    pc = "return" =>
        /\ ret.title # <<>>
        /\ IsBlankResponse(arg.response) =>
                ret.title = <<"c", "h", "o", "r", "e", ":", " ", "u", "p", "d", "a", "t", "e", " ", "f", "i", "l", "e", "s">> /\ ret.body = <<>>

\* C1 witness: a title section that encloses a blank gave the default title.
C1_Witness ==
    /\ pc = "return"
    /\ arg.response = TitleOpen \o <<" ">> \o TitleClose
    /\ ret.title = <<"c", "h", "o", "r", "e", ":", " ", "u", "p", "d", "a", "t", "e", " ", "f", "i", "l", "e", "s">>
    /\ ret.body = <<>>

\* full_message is the title when the body is empty, else title, blank line, body.
MessageInvariant(m) ==
    m.full_message = IF m.body = <<>> THEN m.title ELSE m.title \o <<"\n", "\n">> \o m.body

\* C2: the dictionary parse_structured_response returns (pc = "fix_format"),
\* the one generate_commit_message returns on success and on error
\* (pc = "splice") and the one generate returns (pc = "done") satisfy the
\* full_message invariant.
C2_FullMessageInvariant ==
    pc \in {"fix_format", "splice", "done"} => MessageInvariant(result)

\* C2 witness: generate returned a message with a body and a spliced scope.
C2_Witness ==
    /\ pc = "done"
    /\ result.body # <<>>
    /\ scope # <<>>
    /\ Contains(result.title, <<"(">> \o scope \o <<")", ":">>)
    /\ result.full_message = result.title \o <<"\n", "\n">> \o result.body

\* C3: an exception raised on the provider call path (prompt composition,
\* backend call, parsing, format repair, length repair) never leaves
\* generate_commit_message, which returns reasoning 'Error: ' + text and the
\* fallback message as title and full_message, with an empty body.
C3_ProviderErrorsCaught ==
    /\ ~(pc = "raised" /\ Invoked("generate_commit_message"))
    /\ (pc = "splice" /\ Invoked("except")) =>
            result = [reasoning |-> <<"E", "r", "r", "o", "r", ":", " ">> \o error, title |-> ConfiguredFallback,
                      body |-> <<>>, full_message |-> ConfiguredFallback]

\* C4: when the provider call failed, generate returns the fallback message
\* as title and full_message unchanged, whatever scope was detected.
C4_FallbackNotSpliced ==
    (pc = "done" /\ Invoked("except")) =>
        /\ result.title = ConfiguredFallback
        /\ result.full_message = ConfiguredFallback

\* The title is a type of the list, an optional scope '(' ... ')' of at least
\* one character, a colon, a space and one further character outside of excluded;
\* the scope holds no line break.
ConventionalShape(title, valid_types, excluded) ==
    \E i \in 1..Len(valid_types), k \in 0..Len(title) :
        LET n == Len(valid_types[i])
        IN  /\ n <= Len(title)
            /\ SubSeq(title, 1, n) = valid_types[i]
            /\ \/ k = n
               \/ /\ k >= n + 3
                  /\ title[n + 1] = "("
                  /\ title[k] = ")"
                  /\ \A j \in (n + 2)..(k - 1) : title[j] # "\n"
            /\ Len(title) >= k + 3
            /\ title[k + 1] = ":"
            /\ title[k + 2] = " "
            /\ title[k + 3] \notin excluded

LineBreak == {"\n"}

SpaceOrLineBreak == {" ", "\n"}

\* C5 as stated: validate_conventional_commit is true exactly for a type of
\* the list, an optional non-empty scope, a colon, exactly one space and a
\* further character; two spaces after the colon are rejected.
C5_ExactlyOneSpace ==
    pc # "call" =>
        (ret.valid <=> ConventionalShape(arg.title, arg.valid_types, SpaceOrLineBreak))

\* C5 amended: validate_conventional_commit, for a non-empty list of types,
\* is true exactly for a type of the list (case-sensitive), an optional
\* non-empty scope without line break, a colon, a space and one further
\* character that is no line break and may be a space.
C5_ColonSpaceCharacter ==
    pc # "call" =>
        (ret.valid <=> ConventionalShape(arg.title, arg.valid_types, LineBreak))

\* C5 witness: a title with two spaces after the colon was accepted, one whose
\* type differs in case only was rejected.
C5_Witness ==
    /\ pc # "call"
    /\ arg.valid_types = <<<<"f", "e", "a", "t">>, <<"f", "i", "x">>>>
    /\ \/ arg.title = <<"f", "e", "a", "t", ":", " ", " ", "a", "d", "d", " ", "x">> /\ ret.valid
       \/ arg.title = <<"F", "e", "a", "t", ":", " ", "a", "d", "d", " ", "x">> /\ ~ret.valid

\* The separators the claim C6 shows between the scope and the description.
ScopeSeparators == {<<":", " ">>, <<" ">>, <<":">>}

\* C6: for a title that is not valid and begins, ignoring case, with a type
\* T of the list: T, '(' S ')', a separator and a description D give
\* 'T(S): D'; T followed by no scope gives 'T: ' and the rest of the title.
C6_ScopeKept ==
    (pc = "fixed" /\ ~ret.valid) =>
        \A i \in 1..Len(arg.valid_types) :
            LET T == arg.valid_types[i]
                title == Strip(arg.title)
                after == From(title, Len(T) + 1)
                close == Find(after, <<")">>, 1)
                S == SubSeq(after, 2, close - 1)
                tail == From(after, close + 1)
            IN  StartsWith(Lower(title), T) =>
                    /\ \A sep \in ScopeSeparators :
                        LET D == From(tail, Len(sep) + 1)
                        IN  (/\ StartsWith(after, <<"(">>)
                             /\ close >= 3
                             /\ ~Contains(S, <<"(">>)
                             /\ StartsWith(tail, sep)
                             /\ D # <<>>
                             /\ D[1] \notin Whitespace \cup {":", "(", ")"}
                             /\ ~Contains(D, <<"\n">>))
                            => ret.fixed = T \o <<"(">> \o S \o <<")", ":", " ">> \o D
                    /\ (after # <<>> /\ after[1] \notin Whitespace \cup {":", "(", ")"})
                        => ret.fixed = T \o <<":", " ">> \o after

\* The rows of the keyword table of the claim C7, in order.
KeywordRows ==
    << <<<<"f", "e", "a", "t">>, {<<"a", "d", "d">>, <<"n", "e", "w">>, <<"i", "m", "p", "l", "e", "m", "e", "n", "t">>, <<"c", "r", "e", "a", "t", "e">>}>>,
       <<<<"f", "i", "x">>, {<<"f", "i", "x">>, <<"b", "u", "g">>, <<"i", "s", "s", "u", "e">>, <<"r", "e", "s", "o", "l", "v", "e">>}>>,
       <<<<"c", "h", "o", "r", "e">>, {<<"u", "p", "d", "a", "t", "e">>, <<"m", "o", "d", "i", "f", "y">>, <<"c", "h", "a", "n", "g", "e">>}>>,
       <<<<"r", "e", "f", "a", "c", "t", "o", "r">>, {<<"r", "e", "f", "a", "c", "t", "o", "r">>, <<"r", "e", "s", "t", "r", "u", "c", "t", "u", "r", "e">>, <<"r", "e", "o", "r", "g", "a", "n", "i", "z", "e">>}>>,
       <<<<"t", "e", "s", "t">>, {<<"t", "e", "s", "t">>, <<"s", "p", "e", "c">>}>>,
       <<<<"d", "o", "c", "s">>, {<<"d", "o", "c">>, <<"r", "e", "a", "d", "m", "e">>}>> >>

\* The type of the first row one of whose keywords text holds, else chore.
FirstRowType(text) ==
    LET rows == {i \in 1..Len(KeywordRows) : \E w \in KeywordRows[i][2] : Contains(text, w)}
    IN  IF rows = {} THEN <<"c", "h", "o", "r", "e">> ELSE KeywordRows[Min(rows)][1]

\* The stripped title is not valid and begins, ignoring case, with no type.
NoTypePrefix(title, valid_types) ==
    /\ ~ValidateConventionalCommit(title, valid_types)
    /\ \A i \in 1..Len(valid_types) : ~StartsWith(Lower(title), Lower(valid_types[i]))

\* C7: for a title that is not valid and begins with no type of the list,
\* fix_commit_format returns the type of the first matching row of the keyword
\* table, ': ' and the stripped title.
C7_KeywordTable ==
    (pc \in {"fixed", "return"} /\ NoTypePrefix(Strip(arg.title), arg.valid_types)) =>
        ret.fixed = FirstRowType(Lower(Strip(arg.title))) \o <<":", " ">> \o Strip(arg.title)

\* C7 witness: 'added stuff' with the types feat and fix became 'feat: added stuff'.
C7_Witness ==
    /\ pc = "fixed"
    /\ arg.title = <<"a", "d", "d", "e", "d", " ", "s", "t", "u", "f", "f">>
    /\ arg.valid_types = <<<<"f", "e", "a", "t">>, <<"f", "i", "x">>>>
    /\ ret.fixed = <<"f", "e", "a", "t", ":", " ", "a", "d", "d", "e", "d", " ", "s", "t", "u", "f", "f">>

C9_LengthBound ==
    pc = "return" =>
        IF Len(arg.title) <= arg.max_length
        THEN ret = <<TRUE, arg.title>>
        ELSE /\ ret[1] = FALSE
             /\ Len(ret[2]) <= arg.max_length
             /\ \E k \in 0..arg.max_length : ret[2] = Strip(SubSeq(arg.title, 1, k))

\* C9 witness: a title too long was cut at a space before max_length.
C9_Witness ==
    /\ pc = "return"
    /\ arg.title = <<"a", "a", "a", "a", "a", "a", "a", "a", " ", "a", "a">>
    /\ arg.max_length = 10
    /\ ret = <<FALSE, <<"a", "a", "a", "a", "a", "a", "a", "a">>>>

\* The last space within the first max_length characters, counted from 0; -1 if none.
LastSpace(title, max_length) ==
    LET spaces == {i \in 1..max_length : title[i] = " "}
    IN  IF spaces = {} THEN -1 ELSE Max(spaces) - 1

\* C10: a title longer than max_length is cut at its last space p within the
\* first max_length characters whenever p >= 0.7 * max_length, equality
\* included, and keeps the hard cut of max_length characters otherwise.
C10_CutAtSeventyPercent ==
    (pc = "return" /\ Len(arg.title) > arg.max_length) =>
        LET p == LastSpace(arg.title, arg.max_length)
        IN  ret[2] = Strip(SubSeq(arg.title, 1,
                                  IF 10 * p >= 7 * arg.max_length THEN p ELSE arg.max_length))

(***************************************************************************)
(* Properties of context_analyzer.py.                                      *)
(***************************************************************************)
\* The labels of the table of the claim C11, in order.
ChangeLabels ==
    <<"bugfix", "feature", "documentation", "test", "refactor", "performance", "style",
      "default">>

\* Which rules of the table of C11 match the diff d and the files fs.
ChangeRules(d, fs) ==
    LET text == Lower(d)
        Has(words) == \E w \in words : Contains(text, w)
        File(P(_)) == \E i \in 1..Len(fs) : P(fs[i])
        Doc(f) == \/ \E e \in {<<".", "m", "d">>, <<".", "r", "s", "t">>, <<".", "t", "x", "t">>} : EndsWith(f, e)
                  \/ Contains(Lower(f), <<"d", "o", "c">>)
        Test(f) == \E w \in {<<"t", "e", "s", "t">>, <<"s", "p", "e", "c">>} : Contains(Lower(f), w)
    IN  << Has({<<"f", "i", "x">>, <<"b", "u", "g">>, <<"i", "s", "s", "u", "e">>, <<"e", "r", "r", "o", "r">>, <<"c", "r", "a", "s", "h">>, <<"p", "a", "t", "c", "h">>}),
           /\ Has({<<"a", "d", "d">>, <<"n", "e", "w">>, <<"i", "m", "p", "l", "e", "m", "e", "n", "t">>, <<"f", "e", "a", "t", "u", "r", "e">>, <<"i", "n", "t", "r", "o", "d", "u", "c", "e">>})
           /\ ~Has({<<"t", "e", "s", "t">>, <<"s", "p", "e", "c">>, <<"j", "e", "s", "t">>, <<"p", "y", "t", "e", "s", "t">>}),
           File(Doc),
           File(Test),
           Has({<<"r", "e", "f", "a", "c", "t", "o", "r">>, <<"r", "e", "s", "t", "r", "u", "c", "t", "u", "r", "e">>, <<"r", "e", "o", "r", "g", "a", "n", "i", "z", "e">>, <<"c", "l", "e", "a", "n", "u", "p">>, <<"s", "i", "m", "p", "l", "i", "f", "y">>}),
           Has({<<"p", "e", "r", "f", "o", "r", "m", "a", "n", "c", "e">>, <<"o", "p", "t", "i", "m", "i", "z", "e">>, <<"f", "a", "s", "t", "e", "r">>, <<"e", "f", "f", "i", "c", "i", "e", "n", "t">>}),
           Has({<<"f", "o", "r", "m", "a", "t">>, <<"s", "t", "y", "l", "e">>, <<"l", "i", "n", "t">>, <<"p", "r", "e", "t", "t", "i", "e", "r">>}),
           TRUE >>

DirectoryOf(f) ==
    LET parts == Split(f, <<"/">>)
        skipped == {<<".">>, <<".", ".">>, <<"s", "r", "c">>, <<"l", "i", "b">>, <<"a", "p", "p">>}
    IN  {parts[i] : i \in {k \in 1..(Len(parts) - 1) :
                               /\ parts[k] \notin skipped
                               /\ \A j \in 1..(k - 1) : parts[j] \in skipped}}

\* The distinct directories of the files fs.
DirectoriesOf(fs) == UNION {DirectoryOf(fs[i]) : i \in 1..Len(fs)}

\* name with every '_' and every space replaced by '-'.
Dashed(name) == [i \in 1..Len(name) |-> IF name[i] \in {"_", " "} THEN "-" ELSE name[i]]

ScopeOrder == <<<<"a", "u", "t", "h">>, <<"a", "p", "i">>, <<"u", "i">>, <<"d", "b">>, <<"t", "e", "s", "t">>, <<"d", "o", "c", "s">>, <<"c", "o", "n", "f", "i", "g">>>>

\* The keywords of the scope s.
KeywordsOf(s) ==
    UNION {CommonPatterns[i].keywords : i \in {k \in 1..Len(CommonPatterns) :
                                                  CommonPatterns[k].scope = s}}

\* C13: when the files have no or several distinct directories, analyze_scope
\* returns the first scope of the table one of whose keywords occurs in the
\* lowered, space-joined paths, and the empty string when none occurs or the
\* list is empty.
C13_KeywordRule ==
    (pc = "return" /\ Cardinality(DirectoriesOf(arg.files)) # 1) =>
        LET text == Lower(Join(arg.files, <<" ">>))
            hits == {i \in 1..Len(ScopeOrder) :
                        \E w \in KeywordsOf(ScopeOrder[i]) : Contains(text, w)}
        IN  /\ ret = IF hits = {} THEN <<>> ELSE ScopeOrder[Min(hits)]
            /\ arg.files = <<>> => ret = <<>>

\* C13 witness: two files without a directory held keywords of auth and of
\* api, and two files in different directories held no keyword.
C13_Witness ==
    /\ pc = "return"
    /\ \/ arg.files = <<<<"a", "p", "i", "_", "r", "o", "u", "t", "e", "s", ".", "p", "y">>, <<"l", "o", "g", "i", "n", ".", "p", "y">>>> /\ ret = <<"a", "u", "t", "h">>
       \/ arg.files = <<<<"a", " ", "b", "/", "x", ".", "p", "y">>, <<"m", "y", "_", "m", "o", "d", "/", "a", " ", "b", "/", "x", ".", "p", "y">>>> /\ ret = <<>>

\* The lines of d: one more than its newline characters.
LineCount(d) == Cardinality({i \in 1..Len(d) : d[i] = "\n"}) + 1

\* commit_format.include_body is set to false in cfg.
BodyDisabled(cfg) ==
    /\ "commit_format" \in DOMAIN cfg
    /\ "include_body" \in DOMAIN cfg.commit_format
    /\ cfg.commit_format.include_body = FALSE

\* C14: should_include_body returns false exactly when include_body is
\* disabled or the diff has fewer than 5 lines.
C14_BodyUnlessDisabledOrSmall ==
    pc = "return" =>
        (ret = FALSE <=> (BodyDisabled(arg.config) \/ LineCount(arg.diff) < 5))

\* C14 witness: a diff of 5 to 20 lines with one 'diff --git' marker and the
\* body enabled gave true.
C14_Witness ==
    /\ pc = "return"
    /\ ~BodyDisabled(arg.config)
    /\ LineCount(arg.diff) \in 5..20
    /\ Count(arg.diff, <<"d", "i", "f", "f", " ", "-", "-", "g", "i", "t">>) = 1
    /\ ret = TRUE

(***************************************************************************)
(* Properties of MessageGenerator.generate.                                *)
(***************************************************************************)
\* C15: once is_available() has answered false, generate has returned the
\* configured fallback message with the reasoning 'AI provider not available'
\* and an empty body, has raised nothing and has not invoked
\* generate_commit_message.
C15_UnavailableFallback ==
    (ret = [fn |-> "is_available", value |-> FALSE]) =>
        /\ pc = "done"
        /\ ~Invoked("generate_commit_message")
        /\ ~Invoked("call_backend")
        /\ result = [reasoning |-> <<"A", "I", " ", "p", "r", "o", "v", "i", "d", "e", "r", " ", "n", "o", "t", " ", "a", "v", "a", "i", "l", "a", "b", "l", "e">>, title |-> ConfiguredFallback,
                      body |-> <<>>, full_message |-> ConfiguredFallback]

\* C15 witness: the provider was not available and the configured fallback
\* 'wip' was returned, the scope 'auth' being detected.
C15_Witness ==
    /\ ret = [fn |-> "is_available", value |-> FALSE]
    /\ pc = "done"
    /\ scope = <<"a", "u", "t", "h">>
    /\ result.title = <<"w", "i", "p">>

\* The errors of the checks generate makes before the analysis.
PreconditionErrors ==
    {<<"N", "o", "t", " ", "a", " ", "g", "i", "t", " ", "r", "e", "p", "o", "s", "i", "t", "o", "r", "y">>, <<"N", "o", " ", "s", "t", "a", "g", "e", "d", " ", "c", "h", "a", "n", "g", "e", "s", " ", "t", "o", " ", "c", "o", "m", "m", "i", "t">>, <<"N", "o", " ", "d", "i", "f", "f", " ", "a", "v", "a", "i", "l", "a", "b", "l", "e">>}

\* C16: generate raises when the directory is no git repository, else when
\* nothing is staged, else when the staged diff is empty; the repository is
\* checked first, and a run that ended with one of these errors has invoked
\* neither detect_change_type nor is_available nor generate_commit_message
\* and returns no message.
C16_PreconditionsRaise ==
    /\ (ret = [fn |-> "is_git_repository", value |-> FALSE]) =>
            /\ pc = "raised" /\ error = <<"N", "o", "t", " ", "a", " ", "g", "i", "t", " ", "r", "e", "p", "o", "s", "i", "t", "o", "r", "y">>
            /\ calls = <<"is_git_repository">>
    /\ (ret = [fn |-> "has_staged_changes", value |-> FALSE]) =>
            /\ pc = "raised" /\ error = <<"N", "o", " ", "s", "t", "a", "g", "e", "d", " ", "c", "h", "a", "n", "g", "e", "s", " ", "t", "o", " ", "c", "o", "m", "m", "i", "t">>
            /\ calls = <<"is_git_repository", "has_staged_changes">>
    /\ (Invoked("get_staged_files") /\ diff = <<>>) =>
            /\ pc = "raised"
            /\ error \in {<<"N", "o", " ", "d", "i", "f", "f", " ", "a", "v", "a", "i", "l", "a", "b", "l", "e">>, <<"F", "a", "i", "l", "e", "d", " ", "t", "o", " ", "g", "e", "t", " ", "s", "t", "a", "g", "e", "d", " ", "f", "i", "l", "e", "s", ":", " ", "x">>}
    /\ (pc = "raised" /\ error \in PreconditionErrors) =>
            /\ ~Invoked("detect_change_type")
            /\ ~Invoked("analyze_scope")
            /\ ~Invoked("is_available")
            /\ ~Invoked("generate_commit_message")
            /\ result = NoResult

\* C16 witness: the repository and the staged changes were there, the staged
\* diff was empty, and generate raised.
C16_Witness ==
    /\ pc = "raised"
    /\ error = <<"N", "o", " ", "d", "i", "f", "f", " ", "a", "v", "a", "i", "l", "a", "b", "l", "e">>
    /\ calls = <<"is_git_repository", "has_staged_changes", "get_staged_diff", "get_staged_files">>

(***************************************************************************)
(* Properties of the tags of a raw response.                               *)
(***************************************************************************)
\* No section in a response.
NoSection == [present |-> FALSE, text |-> <<>>]

\* The sections open ... close of s, by the position of their open marker:
\* each runs to the first close marker after its open marker.
SectionStarts(s, open, close) ==
    {a \in 1..Len(s) :
        /\ OccursAt(s, open, a)
        /\ \E b \in (a + Len(open))..Len(s) : OccursAt(s, close, b)}

\* The text of the section of s whose open marker is at a.
SectionAt(s, open, close, a) ==
    LET b == Min({k \in (a + Len(open))..Len(s) : OccursAt(s, close, k)})
    IN  SubSeq(s, a + Len(open), b - 1)

\* The first section open ... close of s.
FirstSection(s, open, close) ==
    LET starts == SectionStarts(s, open, close)
    IN  IF starts = {} THEN NoSection
        ELSE [present |-> TRUE, text |-> SectionAt(s, open, close, Min(starts))]

\* The first section open ... close of s that is not blank.
FirstNonBlankSection(s, open, close) ==
    LET starts == {a \in SectionStarts(s, open, close) :
                      Strip(SectionAt(s, open, close, a)) # <<>>}
    IN  IF starts = {} THEN NoSection
        ELSE [present |-> TRUE, text |-> SectionAt(s, open, close, Min(starts))]

\* The result for a response whose title is taken from the section t: the
\* fields come from the sections, normalised, a missing section giving ''.
TakenFromTags(r, s, t) ==
    /\ r.title = CleanText(Strip(t.text))
    /\ r.body = CleanText(Strip(FirstSection(s, BodyOpen, BodyClose).text))
    /\ r.reasoning = Strip(FirstSection(s, ReasoningOpen, ReasoningClose).text)
    /\ r.full_message = IF r.body = <<>> THEN r.title ELSE r.title \o <<"\n", "\n">> \o r.body

AllMarkers == {ReasoningOpen, ReasoningClose, TitleOpen, TitleClose, BodyOpen, BodyClose}

\* s without its tag markers, found from left to right.
RECURSIVE WithoutMarkers(_)
WithoutMarkers(s) ==
    LET at == {i \in 1..Len(s) : \E m \in AllMarkers : OccursAt(s, m, i)}
    IN  IF at = {} THEN s
        ELSE LET i == Min(at)
                 m == CHOOSE x \in AllMarkers : OccursAt(s, x, i)
             IN  SubSeq(s, 1, i - 1) \o WithoutMarkers(From(s, i + Len(m)))

\* C18: when no title comes from the tags, the title and the body hold none
\* of the six tag markers; the title is the first non-empty trimmed line of
\* the text that remains without its reasoning sections and markers, the
\* body the other non-empty trimmed lines.
C18_NoMarkerLeft ==
    (pc = "return" /\ Strip(FirstSection(arg.response, TitleOpen, TitleClose).text) = <<>>) =>
        LET rest == WithoutMarkers(RemoveTagged(arg.response, ReasoningOpen, ReasoningClose))
            lines == StrippedLines(rest)
        IN  /\ \A m \in AllMarkers : ~Contains(ret.title, m) /\ ~Contains(ret.body, m)
            /\ lines # <<>> =>
                    /\ ret.title = CleanText(lines[1])
                    /\ ret.body = CleanText(Join(Tail(lines), <<"\n">>))

(***************************************************************************)
(* Properties of prompt_builder.py.                                        *)
(***************************************************************************)
\* The key k of prompt_engineering is left out of cfg or empty.
AbsentOrEmpty(cfg, k) ==
    \/ "prompt_engineering" \notin DOMAIN cfg
    \/ k \notin DOMAIN cfg.prompt_engineering
    \/ cfg.prompt_engineering[k] = <<>>

\* C19: build_reasoning_prompt uses the built-in system message, reasoning
\* template, output format and examples whenever the configured value is
\* left out or empty; with the default configuration the two built-in
\* examples are in the user prompt.
C19_DefaultsWhenEmpty ==
    pc = "return" =>
        /\ AbsentOrEmpty(arg.config, "system_message") => ret.system = DefaultSystemMessage
        /\ AbsentOrEmpty(arg.config, "reasoning_template") =>
                Contains(ret.user, <<"G", "e", "n", "e", "r", "a", "t", "e", " ", "t", "h", "e", " ", "c", "o", "m", "m", "i", "t", " ", "m", "e", "s", "s", "a", "g", "e", " ", "N", "O", "W", ":">>)
        /\ AbsentOrEmpty(arg.config, "output_format") => Contains(ret.user, DefaultOutputFormat)
        /\ AbsentOrEmpty(arg.config, "examples") =>
                \A i \in 1..Len(DefaultExamples) : Contains(ret.user, DefaultExamples[i].output)
        /\ arg.config = DefaultConfig =>
                /\ Contains(ret.user, <<"f", "e", "a", "t", "(", "a", "u", "t", "h", ")", ":", " ", "a", "d", "d", " ", "J", "W", "T", " ", "v", "a", "l", "i", "d", "a", "t", "i", "o", "n", " ", "m", "i", "d", "d", "l", "e", "w", "a", "r", "e">>)
                /\ Contains(ret.user, <<"f", "i", "x", "(", "u", "s", "e", "r", ")", ":", " ", "p", "r", "e", "v", "e", "n", "t", " ", "n", "u", "l", "l", " ", "p", "o", "i", "n", "t", "e", "r", " ", "e", "x", "c", "e", "p", "t", "i", "o", "n">>)

\* The lines of d: the text before each newline, and the text after the
\* last one when there is some.
TextLines(d) ==
    LET parts == Split(d, <<"\n">>)
    IN  IF parts[Len(parts)] = <<>> THEN SubSeq(parts, 1, Len(parts) - 1) ELSE parts

\* The text the user prompt holds between the words around the diff.
EmbeddedAs(user, text) ==
    \/ Contains(user, <<"D", " ">> \o text \o <<" ", "F", " ">>)
    \/ Contains(user, <<"G", "i", "t", " ", "C", "h", "a", "n", "g", "e", "s", ":", "\n">> \o text \o <<"\n", "\n", "F", "i", "l", "e", "s", " ", "M", "o", "d", "i", "f", "i", "e", "d", ":">>)

\* C20: a diff of at most max_diff_lines lines is embedded unchanged and
\* without a marker; a longer one as its first max_diff_lines lines and one
\* marker line; the marker is there exactly when lines were cut.
C20_TruncatedWhenLonger ==
    pc = "return" =>
        LET n == arg.config.analysis.max_diff_lines
            lines == TextLines(arg.diff)
            marker == <<".", ".", ".", " ", "(", "t", "r", "u", "n", "c", "a", "t", "e", "d", ",", " ", "s", "h", "o", "w", "i", "n", "g", " ", "f", "i", "r", "s", "t", " ">> \o ToStr(n) \o <<" ", "l", "i", "n", "e", "s", ")">>
        IN  /\ Contains(ret.user, <<".", ".", ".", " ", "(", "t", "r", "u", "n", "c", "a", "t", "e", "d">>) <=> Len(lines) > n
            /\ IF Len(lines) <= n THEN EmbeddedAs(ret.user, arg.diff)
               ELSE EmbeddedAs(ret.user, Join(SubSeq(lines, 1, n), <<"\n">>) \o <<"\n">> \o marker)

(***************************************************************************)
(* Properties of the third group of claims.                                *)
(***************************************************************************)
\* C27: the title returned by parse_structured_response has no newline
\* character, so the first line of full_message is the whole title.
C27_TitleSingleLine ==
    pc = "return" =>
        /\ ~Contains(ret.title, <<"\n">>)
        /\ Split(ret.full_message, <<"\n">>)[1] = ret.title

\* C24: after a successful provider call the title generate returns has at
\* most commit_format.max_title_length characters, whatever scope was
\* detected.
C24_TitleWithinMaxLength ==
    (pc = "done" /\ Invoked("call_backend") /\ ~Invoked("except")) =>
        Len(result.title)
            <= Get(Get(config, "commit_format", <<>>), "max_title_length", [int |-> 72]).int

\* The dictionary res with the scope sc put between the text before the
\* first colon of the title and the colon.
WithScope(res, sc) ==
    LET parts == Split(res.title, <<":">>)
        title == parts[1] \o <<"(">> \o sc \o <<")", ":">> \o Join(Tail(parts), <<":">>)
    IN  [reasoning |-> res.reasoning, title |-> title, body |-> res.body,
         full_message |-> IF res.body = <<>> THEN title ELSE title \o <<"\n", "\n">> \o res.body]

\* C29: the scope step of generate rebuilds the provider's title around its
\* first colon and full_message from it when the scope is non-empty and the
\* title has a ':' and no '('; otherwise it returns the provider's
\* dictionary unchanged.
C29_ScopeStep ==
    [][pc = "splice" =>
        result' = IF scope # <<>> /\ ~Contains(result.title, <<"(">>) /\ Contains(result.title, <<":">>)
                  THEN WithScope(result, scope)
                  ELSE result]_vars

\* C29 witness: generate returned a title with two colons, the scope
\* spliced before the first one.
C29_Witness ==
    /\ pc = "done"
    /\ scope # <<>>
    /\ \E i \in 1..Len(result.title) :
        /\ OccursAt(result.title, <<"(">> \o scope \o <<")", ":">>, i)
        /\ ~Contains(SubSeq(result.title, 1, i - 1), <<":">>)
        /\ Contains(From(result.title, i + Len(scope) + 3), <<":">>)

\* The number of backend calls made so far.
BackendCalls == Cardinality({i \in 1..Len(calls) : calls[i] = "call_backend"})

\* C30: in one call of generate the backend is called at most once, and a
\* failed call is followed at once by the except branch and the fallback
\* message, without a response of the backend.
C30_BackendCalledOnce ==
    /\ BackendCalls <= 1
    /\ \A i \in 1..Len(calls) :
        (calls[i] = "except" /\ i > 1 /\ calls[i - 1] = "call_backend") =>
            /\ response = <<>>
            /\ result.reasoning = <<"E", "r", "r", "o", "r", ":", " ">> \o error
            /\ result.body = <<>>
            /\ pc \in {"splice", "done"}

\* C30 witness: the backend call failed and generate returned the fallback.
C30_Witness ==
    /\ pc = "done"
    /\ BackendCalls = 1
    /\ calls[Len(calls)] = "except"
    /\ calls[Len(calls) - 1] = "call_backend"
    /\ Contains(result.title, <<"u", "p", "d", "a", "t", "e", " ", "f", "i", "l", "e", "s">>)

\* C26: the title fix_commit_format returns satisfies
\* validate_conventional_commit with the same list of types.
C26_FixedIsValid ==
    pc \in {"fixed", "return"} => ret.fixed_valid

\* C28: when analyze_scope returns the scope of the single-directory rule,
\* every file of the list lies in that directory; a list with a file at the
\* root or under skipped directories only gets no such scope.
C28_AllFilesInScopeDirectory ==
    pc = "return" =>
        \A d \in DirectoriesOf(arg.files) :
            (DirectoriesOf(arg.files) = {d} /\ ret = Dashed(d)) =>
                \A i \in 1..Len(arg.files) : DirectoryOf(arg.files[i]) = {d}

(***************************************************************************)
(* Properties of config.py and cli.py.                                     *)
(***************************************************************************)
\* C25: DEFAULT_CONFIG and its nested sections are never modified, so a
\* load without a file returns the documented defaults and create_default
\* writes them.
C25_DefaultsNeverModified ==
    /\ DEFAULT_CONFIG = DocumentedDefaults
    /\ (calls # <<>> /\ calls[Len(calls)].op = "create_default") =>
            conf_file = [kind |-> "json", value |-> DocumentedDefaults]
    /\ (calls # <<>> /\ calls[Len(calls)].op = "load" /\ ret.file.kind = "absent") =>
            ret.value = DocumentedDefaults

\* The key paths of the dictionary f that end at a value which is not a
\* dictionary.
RECURSIVE Paths(_)
Paths(f) ==
    UNION {IF IsDict(f[k]) THEN {<<k>> \o p : p \in Paths(f[k].d)} ELSE {<<k>>} :
           k \in DOMAIN f}

Missing == [missing |-> TRUE]

\* The value at key path p of the dictionary f.
RECURSIVE At(_, _)
At(f, p) ==
    IF Head(p) \notin DOMAIN f THEN Missing
    ELSE IF Len(p) = 1 THEN f[Head(p)]
    ELSE IF IsDict(f[Head(p)]) THEN At(f[Head(p)].d, Tail(p))
    ELSE Missing

LastCallIs(op) == calls # <<>> /\ calls[Len(calls)].op = op

\* C21: Config.load with a JSON object file returns a configuration where
\* every key path of the file carries the file's value and every other
\* default key path carries its documented default; with no file, or a file
\* that cannot be parsed, it returns the documented defaults.
C21_LoadMergesFileOverDefaults ==
    LastCallIs("load") =>
        IF ret.file.kind = "json"
        THEN /\ \A p \in Paths(ret.file.value) : At(ret.value, p) = At(ret.file.value, p)
             /\ \A p \in Paths(DocumentedDefaults) \ Paths(ret.file.value) :
                    At(ret.value, p) = At(DocumentedDefaults, p)
        ELSE ret.value = DocumentedDefaults

\* The latest 'config set' of a provider's api_key, by its index in calls.
KeySets ==
    {i \in 1..Len(calls) :
        /\ calls[i].op = "cmd_config_set"
        /\ calls[i].key \in {<<"openai", "api_key">>, <<"anthropic", "api_key">>}}

\* C23: after 'commit-ai config set <provider>.api_key K', the provider that
\* a MessageGenerator builds from the reloaded configuration has api_key K.
C23_ConfigSetReachesProvider ==
    \A i \in KeySets :
        (/\ LastCallIs("load")
         /\ \A j \in (i + 1)..(Len(calls) - 1) : calls[j].op = "exit")
        => ProviderApiKey(ret.value, calls[i].key[1]) = calls[i].value

\* The fallback_message the configuration file gives.
FileFallback ==
    IF conf_file.kind = "json" /\ "fallback_message" \in DOMAIN conf_file.value
    THEN conf_file.value.fallback_message.v
    ELSE <<"c", "h", "o", "r", "e", ":", " ", "u", "p", "d", "a", "t", "e", " ", "f", "i", "l", "e", "s">>

\* C22: when cmd_generate returns, standard output holds one commit message:
\* the full_message of the result, or the configured fallback_message when
\* the load, the construction of the provider or generate raised.
C22_OneMessageOnStdout ==
    pc = "exit" =>
        stdout = <<IF calls[Len(calls)] = "print_fallback"
                   THEN FileFallback ELSE result.full_message>>

====
